---- MODULE Spec2Model ----
(***************************************************************************)
(* A model of wilma_mcp.client.WilmaClient: the session fields, the        *)
(* two-step login handshake, the authenticated request dispatcher with its *)
(* single expiry retry, and the callers that run on top of it.  Every      *)
(* action is one synchronous block of a coroutine, from one await of the   *)
(* network to the next; the portal's answers are chosen when they arrive.  *)
(***************************************************************************)
EXTENDS Integers, Sequences, FiniteSets, TLC

\* ------------------------------------------------------------------ bounds
\* Coroutines that share the one client.
NumTasks == 2
\* Calls started on the client in one run of the concurrent system.
MaxCalls == 2
\* Calls one coroutine makes in a row in a run of the sequential system.
MaxSeqCalls == 3
\* Elements in an Events array.
MaxEvents == 3
\* Characters in a recipient's text.
MaxText == 4
\* Items in the portal's message list.
MaxMessages == 2
\* Hidden inputs of a reply form.
MaxHidden == 2
\* Elements in the Events array of a week's page.
MaxWeekEvents == 2

Tasks == 1..NumTasks

\* ----------------------------------------------------------------- strings
\* A Python str is a sequence of one-character strings.
Digits == {"0", "1", "2", "3", "4", "5", "6", "7", "8", "9"}

UpperLetters == <<"A", "B", "C", "D", "E", "F", "G", "H", "I", "J", "K", "L", "M",
                  "N", "O", "P", "Q", "R", "S", "T", "U", "V", "W", "X", "Y", "Z">>

LowerLetters == <<"a", "b", "c", "d", "e", "f", "g", "h", "i", "j", "k", "l", "m",
                  "n", "o", "p", "q", "r", "s", "t", "u", "v", "w", "x", "y", "z">>

\* str.lower() on one character.
LowerChar(c) ==
    IF \E i \in 1..26 : UpperLetters[i] = c
    THEN LowerLetters[CHOOSE i \in 1..26 : UpperLetters[i] = c]
    ELSE c

\* str.lower()
Lower(s) == [i \in 1..Len(s) |-> LowerChar(s[i])]

\* s[i:i+len(sub)] == sub, i counted from 1.
OccursAt(s, sub, i) ==
    /\ i >= 1
    /\ i + Len(sub) - 1 <= Len(s)
    /\ \A k \in 1..Len(sub) : s[i + k - 1] = sub[k]

\* sub in s
Contains(s, sub) == \E i \in 1..(Len(s) + 1) : OccursAt(s, sub, i)

\* s.startswith(p)
StartsWith(s, p) == OccursAt(s, p, 1)

\* The literals of the source.
LoginMarker == <<"/", "l", "o", "g", "i", "n">>
BangMarker == <<"/", "!">>
PreferencesRoot == <<"/", "p", "r", "e", "f", "e", "r", "e", "n", "c", "e", "s">>
HrefOpen == <<"h", "r", "e", "f", "=", "\"">>
NoneText == <<"N", "o", "n", "e">>
MessagesPath == <<"/", "m", "e", "s", "s", "a", "g", "e", "s", "/", "l", "i", "s", "t",
                  "/", "i", "n", "d", "e", "x", "_", "j", "s", "o", "n">>

\* Python's None for a str-valued field; no cookie value and no token equals it.
None == "<None>"
\* None for the prefix, a str kept as a sequence: no match of /!\d+ is empty.
NoPrefix == << >>

\* --------------------------------------------------------- regex /!\d+
\* The end of the greedy \d+ that starts at position i (s[i] is a digit).
RECURSIVE DigitsEnd(_, _)
DigitsEnd(s, i) ==
    IF i + 1 <= Len(s) /\ s[i + 1] \in Digits THEN DigitsEnd(s, i + 1) ELSE i

\* Whether /!\d+ matches at position i.
PrefixAt(s, i) ==
    /\ i + 2 <= Len(s)
    /\ s[i] = "/"
    /\ s[i + 1] = "!"
    /\ s[i + 2] \in Digits

\* re.search(r"(/!\d+)", s): group 1 of the leftmost match scanning from i, or
\* NoPrefix.
RECURSIVE SearchPrefixFrom(_, _)
SearchPrefixFrom(s, i) ==
    IF i > Len(s) THEN NoPrefix
    ELSE IF PrefixAt(s, i) THEN SubSeq(s, i, DigitsEnd(s, i + 2))
    ELSE SearchPrefixFrom(s, i + 1)

SearchPrefix(s) == SearchPrefixFrom(s, 1)

\* re.search(r'href="(/!\d+)', s): group 1 of the leftmost match, or NoPrefix.
RECURSIVE SearchHrefFrom(_, _)
SearchHrefFrom(s, i) ==
    IF i > Len(s) THEN NoPrefix
    ELSE IF OccursAt(s, HrefOpen, i) /\ PrefixAt(s, i + Len(HrefOpen))
         THEN SubSeq(s, i + Len(HrefOpen), DigitsEnd(s, i + Len(HrefOpen) + 2))
    ELSE SearchHrefFrom(s, i + 1)

SearchHref(s) == SearchHrefFrom(s, 1)

\* -------------------------------------------------------------------- JSON
\* A parsed JSON value, tagged with its Python type.
JNull == [t |-> "null"]
JStr(s) == [t |-> "str", s |-> s]
JInt(n) == [t |-> "int", n |-> n]
JList(l) == [t |-> "list", l |-> l]
JObj(o) == [t |-> "obj", o |-> o]
\* A body that json() cannot parse (it raises ValueError): HTML, empty, cut off.
NotJson == [t |-> "text"]

\* bool(v) of a parsed value.
Truthy(v) ==
    CASE v.t = "null" -> FALSE
      [] v.t = "str" -> Len(v.s) > 0
      [] v.t = "int" -> v.n # 0
      [] v.t = "list" -> Len(v.l) > 0
      [] v.t = "obj" -> DOMAIN v.o # {}
      [] OTHER -> TRUE

\* d.get(k, default) on a dict.
DictGet(o, k, default) == IF k \in DOMAIN o THEN o[k] ELSE default

\* ------------------------------------------------------------ the portal
\* What an awaited HTTP call brings back: a transport fault (httpx.HTTPError:
\* network error, timeout), or a response.
Transport == [kind |-> "transport"]
NoResponse == [kind |-> "none"]

Statuses == {200, 500}

\* Bodies of GET /index_json.
BootBodies ==
    { NotJson,
      JNull,
      JList(<< >>),
      JObj([k \in {"Other"} |-> JStr("x")]),
      JObj([k \in {"SessionID"} |-> JStr("")]),
      JObj([k \in {"SessionID"} |-> JStr("abc")]) }

BootResponses ==
    {Transport} \cup
    { [kind |-> "response", status |-> st, body |-> b] :
        st \in Statuses, b \in BootBodies }

\* Wilma2SID values the portal issues.
Sids == {"xyz"}
\* What the login POST's response does to the cookie jar: sets Wilma2SID, leaves
\* the jar alone, or expires the cookie.
CookieEffects == Sids \cup {"keep", "delete"}

\* Final URLs of the login POST, after redirects: w/!0411876/x, w/login
\* (no prefix in it) and w/!/!7 (a "/!" without digits before the prefix).
UrlHome == <<"w", "/", "!", "0", "4", "1", "1", "8", "7", "6", "/", "x">>
UrlLogin == <<"w", "/", "l", "o", "g", "i", "n">>
UrlBang == <<"w", "/", "!", "/", "!", "7">>

LoginUrls == {UrlHome, UrlLogin, UrlBang}

\* Bodies of the login POST's response: href="/!55", x/!9 (a prefix outside any
\* href) and href="/x" href="/!8" (an href without prefix before one with).
TextHref == <<"h", "r", "e", "f", "=", "\"", "/", "!", "5", "5", "\"">>
TextPlain == <<"x", "/", "!", "9">>
TextTwoHrefs == <<"h", "r", "e", "f", "=", "\"", "/", "x", "\"", " ",
                  "h", "r", "e", "f", "=", "\"", "/", "!", "8", "\"">>

LoginTexts == {TextHref, TextPlain, TextTwoHrefs}

LoginResponses ==
    {Transport} \cup
    { [kind |-> "response", status |-> st, set_cookie |-> ck, url |-> u, text |-> b] :
        st \in Statuses, ck \in CookieEffects, u \in LoginUrls, b \in LoginTexts }

\* Final URLs of an authenticated request, after redirects: w/!12/messages,
\* w/login and w/Login?r.
UrlMessages == <<"w", "/", "!", "1", "2", "/", "m", "e", "s", "s", "a", "g", "e", "s">>
UrlLoginUpper == <<"w", "/", "L", "o", "g", "i", "n", "?", "r">>

RequestUrls == {UrlMessages, UrlLogin, UrlLoginUpper}

GoodItem ==
    JObj([k \in {"Id", "Subject", "Sender", "TimeStamp", "Status"} |->
            CASE k = "Id" -> JInt(7)
              [] k = "Subject" -> JStr(<<"H", "i">>)
              [] k = "Sender" -> JStr(<<"A", "d", "m", "i", "n">>)
              [] k = "TimeStamp" -> JStr(<<"2", "0", "2", "6", "-", "0", "2", "-", "0", "8",
                                           " ", "1", "1", ":", "4", "2">>)
              [] OTHER -> JInt(0)])

NullStampItem ==
    JObj([k \in {"Id", "TimeStamp"} |-> IF k = "Id" THEN JInt(7) ELSE JNull])

\* Bodies of GET /messages/list/index_json.
MessageBodies ==
    { NotJson,
      JList(<< >>),
      JObj([k \in {"Other"} |-> JStr("x")]),
      JObj([k \in {"Messages"} |-> JNull]),
      JObj([k \in {"Messages"} |-> JList(<<GoodItem>>)]),
      JObj([k \in {"Messages"} |-> JList(<<GoodItem, JInt(1)>>)]),
      JObj([k \in {"Messages"} |-> JList(<<NullStampItem>>)]) }

\* ----------------------------------------------------------------- callers
\* get_messages(folder="inbox", limit=20): the default limit.
DefaultLimit == 20

\* The calls a coroutine makes on the client: _request itself with a method and a
\* path, or get_messages, which sends GET /messages/list/index_json through it.
Calls ==
    { [op |-> "_request", method |-> "GET",
       path |-> <<"/", "s", "c", "h", "e", "d", "u", "l", "e">>],
      [op |-> "_request", method |-> "POST",
       path |-> <<"/", "!", "1", "2", "/", "x">>],
      [op |-> "_request", method |-> "GET", path |-> PreferencesRoot],
      [op |-> "get_messages", method |-> "GET", path |-> MessagesPath] }

\* The callers and the portal of a run: the calls made, and what the portal may
\* answer to GET /index_json, to the login POST and to a request (its final
\* URLs, and its bodies by caller).
FullPortal ==
    [calls |-> Calls,
     boot |-> BootResponses,
     login |-> LoginResponses,
     urls |-> RequestUrls,
     bodies |-> [op \in {"_request", "get_messages"} |->
                   IF op = "get_messages" THEN MessageBodies ELSE {NotJson}]]

\* The same with fewer answers of each kind, for runs of several coroutines.
CoarsePortal ==
    [calls |-> {call \in Calls : call.op = "get_messages"},
     boot |-> {Transport,
               [kind |-> "response", status |-> 200,
                body |-> JObj([k \in {"SessionID"} |-> JStr("abc")])]},
     login |-> {Transport} \cup
               { r \in LoginResponses :
                   /\ r.kind = "response"
                   /\ r.status = 200
                   /\ r.set_cookie # "keep"
                   /\ r.url \in {UrlHome, UrlLogin}
                   /\ r.text = TextHref },
     urls |-> {UrlMessages, UrlLogin},
     bodies |-> [op \in {"_request", "get_messages"} |->
                   IF op = "get_messages"
                   THEN {JObj([k \in {"Messages"} |-> JList(<<GoodItem>>)])}
                   ELSE {NotJson}]]

\* What the portal P may answer to a request of caller op.
RequestResponses(P, op) ==
    {Transport} \cup
    { [kind |-> "response", url |-> u, body |-> b] :
        u \in P.urls, b \in P.bodies[op] }

\* ------------------------------------------------------------------- state
VARIABLES
    session_id,     \* WilmaClient._session_id: None or the cookie's value
    user_prefix,    \* WilmaClient._user_prefix: NoPrefix or "/!<digits>"
    cookies,        \* the Wilma2SID entry of the httpx client's cookie jar
    has_client,     \* WilmaClient._client is not None
    co,             \* the coroutines: where each stands, and its locals
    calls,          \* calls started so far
    login_raised    \* whether a login() has raised so far

vars == <<session_id, user_prefix, cookies, has_client, co, calls, login_raised>>

\* A coroutine that has not called yet.
NewCo ==
    [pc |-> "idle", op |-> "none", method |-> "none", arg_path |-> << >>,
     path |-> << >>, ret |-> "none", index_response |-> NoResponse,
     session_token |-> JNull, login_response |-> NoResponse,
     response |-> NoResponse, sent |-> << >>, relogins |-> 0,
     result |-> "none"]

Init ==
    /\ session_id = None
    /\ user_prefix = NoPrefix
    /\ cookies = None
    /\ has_client = FALSE
    /\ co = [t \in Tasks |-> NewCo]
    /\ calls = 0
    /\ login_raised = FALSE

\* ------------------------------------------------------------------- login
\* httpx's is_error: raise_for_status raises HTTPStatusError, an httpx.HTTPError.
IsErrorStatus(st) == st >= 400

\* login(), step 1, on the answer r to GET /index_json: the exception raised
\* ("none": none) and session_token.
LoginStep1(r) ==
    IF r.kind = "transport" THEN [exc |-> "WilmaAuthError", token |-> JNull]
    ELSE IF IsErrorStatus(r.status) THEN [exc |-> "WilmaAuthError", token |-> JNull]
    ELSE IF r.body = NotJson THEN [exc |-> "WilmaAuthError", token |-> JNull]
    ELSE IF r.body.t # "obj" THEN [exc |-> "AttributeError", token |-> JNull]
    ELSE LET session_token == DictGet(r.body.o, "SessionID", JNull)
         IN  IF ~Truthy(session_token)
             THEN [exc |-> "WilmaAuthError", token |-> JNull]
             ELSE [exc |-> "none", token |-> session_token]

\* The jar after a response's Set-Cookie headers.
ExtractCookies(jar, effect) ==
    CASE effect = "keep" -> jar
      [] effect = "delete" -> None
      [] OTHER -> effect

\* `not self._session_id`
CookieMissing(sid) == sid = None \/ sid = ""

\* FindPrefix with the two searches in the other order.
FindPrefix_BodyFirst(url, text) ==
    LET prefix_match == SearchHref(text)
    IN  IF prefix_match # NoPrefix THEN prefix_match ELSE SearchPrefix(url)

\* The prefix search of login(): the final URL first, then an href of the body.
FindPrefix(url, text) ==
    LET prefix_match == SearchPrefix(url)
    IN  IF prefix_match # NoPrefix THEN prefix_match ELSE SearchHref(text)

\* LoginStep2 with a raise_for_status() on the POST's response.
LoginStep2_StatusCheck(r, jar, sid, prefix) ==
    IF r.kind = "transport" \/ IsErrorStatus(r.status)
    THEN [exc |-> "WilmaAuthError", session_id |-> sid, user_prefix |-> prefix]
    ELSE IF CookieMissing(jar)
    THEN [exc |-> "WilmaAuthError", session_id |-> jar, user_prefix |-> prefix]
    ELSE IF FindPrefix(r.url, r.text) = NoPrefix
    THEN [exc |-> "WilmaAuthError", session_id |-> jar, user_prefix |-> prefix]
    ELSE [exc |-> "none", session_id |-> jar,
          user_prefix |-> FindPrefix(r.url, r.text)]

\* LoginStep2 that checks the cookie and never stores it.
LoginStep2_NoStore(r, jar, sid, prefix) ==
    IF r.kind = "transport" \/ CookieMissing(jar)
       \/ FindPrefix(r.url, r.text) = NoPrefix
    THEN [exc |-> "WilmaAuthError", session_id |-> sid, user_prefix |-> prefix]
    ELSE [exc |-> "none", session_id |-> sid,
          user_prefix |-> FindPrefix(r.url, r.text)]

\* login() from the cookie check on, on the POST's answer r with the jar as it
\* is: the exception raised and the session fields as login() leaves them.
LoginStep2(r, jar, sid, prefix) ==
    IF r.kind = "transport"
    THEN [exc |-> "WilmaAuthError", session_id |-> sid, user_prefix |-> prefix]
    ELSE IF CookieMissing(jar)
    THEN [exc |-> "WilmaAuthError", session_id |-> jar, user_prefix |-> prefix]
    ELSE LET found == FindPrefix(r.url, r.text)
         IN  IF found = NoPrefix
             THEN [exc |-> "WilmaAuthError", session_id |-> jar,
                   user_prefix |-> prefix]
             ELSE [exc |-> "none", session_id |-> jar, user_prefix |-> found]

\* NeedsLogin with `and` for `or`.
NeedsLogin_Both(sid, prefix) == sid = None /\ prefix = NoPrefix

\* _ensure_authenticated's test.
NeedsLogin(sid, prefix) == sid = None \/ prefix = NoPrefix

\* ---------------------------------------------------------------- _request
\* f"{self._user_prefix}{path}"
FormatPrefix(prefix) == IF prefix = NoPrefix THEN NoneText ELSE prefix

\* RewritePath that prepends the prefix to every path.
RewritePath_Always(prefix, path) == FormatPrefix(prefix) \o path

\* The path rewriting of _request.
RewritePath(prefix, path) ==
    IF ~StartsWith(path, BangMarker) /\ ~StartsWith(path, PreferencesRoot)
    THEN FormatPrefix(prefix) \o path
    ELSE path

\* "/login" in str(response.url).lower()
IsExpired(r) == Contains(Lower(r.url), LoginMarker)

\* client.request(method, path, **kwargs) is issued: the coroutine waits for its
\* answer at `at`.
Send(c, path, at) ==
    [c EXCEPT !.pc = at, !.path = path,
              !.sent = Append(@, [method |-> c.method, path |-> path])]

\* The coroutine ends with an exception.
Raise(c, exc) == [c EXCEPT !.pc = "done", !.result = exc]

\* Resume that rewrites the caller's path again before the second send.
Resume_Rewrite(c, prefix) ==
    IF c.ret = "ensure"
    THEN Send(c, RewritePath(prefix, c.path), "req")
    ELSE Send(c, RewritePath(prefix, c.arg_path), "retry")

\* _request after a login() that returned: after _ensure_authenticated it
\* rewrites the path and sends the request; after an expiry it sends the same
\* request again.
Resume(c, prefix) ==
    IF c.ret = "ensure"
    THEN Send(c, RewritePath(prefix, c.path), "req")
    ELSE Send(c, c.path, "retry")

\* OnFault that sends the request again.
OnFault_Retry(c) == Send([c EXCEPT !.response = Transport], c.path, "retry")

\* _request on a transport fault of client.request: except httpx.HTTPError.
OnFault(c) == Raise([c EXCEPT !.response = Transport], "WilmaAPIError")

\* The session id after _request has seen the login page.
ExpiryReset(sid) == None

\* ------------------------------------------------------------ get_messages
\* msg_list[:limit]
Slice(l, limit) ==
    IF limit >= 0
    THEN SubSeq(l, 1, IF limit < Len(l) THEN limit ELSE Len(l))
    ELSE SubSeq(l, 1, IF Len(l) + limit > 0 THEN Len(l) + limit ELSE 0)

\* The exception one item of the list raises in _parse_messages_json's loop:
\* msg.get needs a dict, strptime needs a str (its ValueError is caught there).
ItemExc(msg) ==
    IF msg.t # "obj" THEN "AttributeError"
    ELSE IF DictGet(msg.o, "TimeStamp", JStr("")).t # "str" THEN "TypeError"
    ELSE "none"

\* The first exception the loop raises from item i on.
RECURSIVE LoopExc(_, _)
LoopExc(items, i) ==
    IF i > Len(items) THEN "none"
    ELSE IF ItemExc(items[i]) # "none" THEN ItemExc(items[i])
    ELSE LoopExc(items, i + 1)

\* The exception _parse_messages_json(data, folder, limit) raises, or "none".
ParseMessagesExc(data, limit) ==
    IF data.t # "obj" THEN "AttributeError"
    ELSE LET msg_list == DictGet(data.o, "Messages", JList(<< >>))
         IN  IF msg_list.t # "list" THEN "TypeError"
             ELSE LoopExc(Slice(msg_list.l, limit), 1)

\* How get_messages ends on the response r that _request returned: json()'s
\* ValueError becomes WilmaAPIError, anything else the parse raises escapes.
GetMessagesResult(r, limit) ==
    IF r.body = NotJson THEN "WilmaAPIError"
    ELSE IF ParseMessagesExc(r.body, limit) = "none" THEN "ok"
    ELSE ParseMessagesExc(r.body, limit)

\* _request returns r to its caller, which ends with its result.
Return(c, r) ==
    [c EXCEPT !.pc = "done", !.response = r,
              !.result = IF c.op = "get_messages"
                         THEN GetMessagesResult(r, DefaultLimit)
                         ELSE "ok"]

\* ----------------------------------------------------------------- actions
\* A coroutine calls the client: _request runs _ensure_authenticated, which
\* either starts login() (GET /index_json is sent) or does nothing, and then
\* _request rewrites the path and sends the request.
Call(t, P, max) ==
    /\ co[t].pc \in {"idle", "done"}
    /\ calls < max
    /\ calls' = calls + 1
    /\ \E call \in P.calls :
         LET c == [NewCo EXCEPT !.op = call.op, !.method = call.method,
                                !.arg_path = call.path, !.path = call.path]
         IN  IF NeedsLogin(session_id, user_prefix)
             THEN /\ co' = [co EXCEPT ![t] = [c EXCEPT !.pc = "boot",
                                                       !.ret = "ensure"]]
                  /\ has_client' = TRUE
             ELSE /\ co' = [co EXCEPT ![t] =
                              Send(c, RewritePath(user_prefix, c.path), "req")]
                  /\ has_client' = TRUE
    /\ UNCHANGED <<session_id, user_prefix, cookies, login_raised>>

\* The answer to GET /index_json arrives: login() raises, or sends the login
\* POST with the token.
BootReply(t, P) ==
    /\ co[t].pc = "boot"
    /\ \E r \in P.boot :
         LET c == [co[t] EXCEPT !.index_response = r]
             step == LoginStep1(r)
         IN  /\ co' = [co EXCEPT ![t] =
                         IF step.exc # "none" THEN Raise(c, step.exc)
                         ELSE [c EXCEPT !.pc = "post",
                                        !.session_token = step.token]]
             /\ login_raised' = (login_raised \/ step.exc # "none")
    /\ UNCHANGED <<session_id, user_prefix, cookies, has_client, calls>>

\* The answer to the login POST arrives at the httpx client, which puts its
\* cookies into the jar before the coroutine runs again.
PostArrive(t, P) ==
    /\ co[t].pc = "post"
    /\ \E r \in P.login :
         /\ co' = [co EXCEPT ![t] = [@ EXCEPT !.pc = "post_got",
                                              !.login_response = r]]
         /\ cookies' = IF r.kind = "transport" THEN cookies
                       ELSE ExtractCookies(cookies, r.set_cookie)
    /\ UNCHANGED <<session_id, user_prefix, has_client, calls, login_raised>>

\* login() runs on from the POST: the cookie check and the prefix search.  When
\* it returns, its caller runs on: _request sends the request (after
\* _ensure_authenticated) or sends it again (after an expiry).
LoginFinish(t) ==
    /\ co[t].pc = "post_got"
    /\ LET step == LoginStep2(co[t].login_response, cookies, session_id,
                              user_prefix)
       IN  /\ session_id' = step.session_id
           /\ user_prefix' = step.user_prefix
           /\ co' = [co EXCEPT ![t] =
                       IF step.exc # "none" THEN Raise(co[t], step.exc)
                       ELSE Resume(co[t], step.user_prefix)]
           /\ login_raised' = (login_raised \/ step.exc # "none")
    /\ UNCHANGED <<cookies, has_client, calls>>

\* The answer to the request arrives: a transport fault becomes WilmaAPIError; a
\* final URL with /login clears the session id and starts login(); any other
\* response is returned.
ReqReply(t, P) ==
    /\ co[t].pc = "req"
    /\ \E r \in RequestResponses(P, co[t].op) :
         LET c == [co[t] EXCEPT !.login_response = NoResponse]
         IN  IF r.kind = "transport"
             THEN /\ co' = [co EXCEPT ![t] = OnFault(c)]
                  /\ UNCHANGED session_id
             ELSE IF IsExpired(r)
             THEN /\ session_id' = ExpiryReset(session_id)
                  /\ co' = [co EXCEPT ![t] =
                              [c EXCEPT !.pc = "boot", !.ret = "expiry",
                                        !.response = r,
                                        !.relogins = @ + 1]]
             ELSE /\ co' = [co EXCEPT ![t] = Return(c, r)]
                  /\ UNCHANGED session_id
    /\ UNCHANGED <<user_prefix, cookies, has_client, calls, login_raised>>

\* The answer to the request sent again arrives: a transport fault becomes
\* WilmaAPIError, any response is returned.
RetryReply(t, P) ==
    /\ co[t].pc = "retry"
    /\ \E r \in RequestResponses(P, co[t].op) :
         LET c == [co[t] EXCEPT !.login_response = NoResponse]
         IN  co' = [co EXCEPT ![t] =
                      IF r.kind = "transport" THEN OnFault(c)
                      ELSE Return(c, r)]
    /\ UNCHANGED <<session_id, user_prefix, cookies, has_client, calls,
                   login_raised>>

\* Several coroutines share the client.
Next ==
    \E t \in Tasks :
        \/ Call(t, CoarsePortal, MaxCalls)
        \/ BootReply(t, CoarsePortal)
        \/ PostArrive(t, CoarsePortal)
        \/ LoginFinish(t)
        \/ ReqReply(t, CoarsePortal)
        \/ RetryReply(t, CoarsePortal)

Spec == Init /\ [][Next]_vars

\* One coroutine makes its calls one after the other.
NextSeq ==
    \/ Call(1, FullPortal, MaxSeqCalls)
    \/ BootReply(1, FullPortal)
    \/ PostArrive(1, FullPortal)
    \/ LoginFinish(1)
    \/ ReqReply(1, FullPortal)
    \/ RetryReply(1, FullPortal)

SpecSeq == Init /\ [][NextSeq]_vars

\* ------------------------------------------------------------- Python text
\* The minutes of a day: Start and End count them from midnight.
MinutesOfDay == 1440

\* The decimal digits of n >= 0.
RECURSIVE IntDigits(_)
IntDigits(n) ==
    LET DigitSeq == <<"0", "1", "2", "3", "4", "5", "6", "7", "8", "9">>
    IN  IF n < 10 THEN <<DigitSeq[n + 1]>>
        ELSE IntDigits(n \div 10) \o <<DigitSeq[(n % 10) + 1]>>

\* str(n) of an int.
IntStr(n) == IF n < 0 THEN <<"-">> \o IntDigits(-n) ELSE IntDigits(n)

\* f"{n}": no padding.
Format02d_Unpadded(n) == IntStr(n)

\* f"{n:02d}": zero-padded to two characters, the sign counted.
Format02d(n) == IF n >= 0 /\ n < 10 THEN <<"0">> \o IntDigits(n) ELSE IntStr(n)

\* f"{mins // 60:02d}:{mins % 60:02d}" (floor division, remainder in 0..59).
FormatMinutes(mins) == Format02d(mins \div 60) \o <<":">> \o Format02d(mins % 60)

\* The place of a character of the formatted times in code point order.
Ord(c) ==
    LET CodeOrder == <<"-", "0", "1", "2", "3", "4", "5", "6", "7", "8", "9", ":">>
    IN  CHOOSE i \in 1..Len(CodeOrder) : CodeOrder[i] = c

\* a < b of two str: the first differing character decides, a proper prefix is
\* smaller.
RECURSIVE StrLess(_, _)
StrLess(a, b) ==
    IF Len(b) = 0 THEN FALSE
    ELSE IF Len(a) = 0 THEN TRUE
    ELSE IF a[1] = b[1] THEN StrLess(Tail(a), Tail(b))
    ELSE Ord(a[1]) < Ord(b[1])

\* What \s matches.
Whitespace == {" ", "\t", "\n", "\r"}

\* The index after the whitespace that starts at i.
RECURSIVE SkipWs(_, _)
SkipWs(s, i) == IF i <= Len(s) /\ s[i] \in Whitespace THEN SkipWs(s, i + 1) ELSE i

\* s.find(sub, i): the lowest index from i on where sub occurs, 0 when it does
\* not (Python's -1; indices here start at 1).
RECURSIVE FindFrom(_, _, _)
FindFrom(s, sub, i) ==
    IF i + Len(sub) - 1 > Len(s) THEN 0
    ELSE IF OccursAt(s, sub, i) THEN i
    ELSE FindFrom(s, sub, i + 1)

\* A JSON number with a fraction, by its text.
JFloat(text) == [t |-> "float", text |-> text]

\* str(v) of a parsed value (the text Python prints for a list or a dict is
\* kept as the value it prints).
PyStr(v) ==
    CASE v.t = "str" -> v
      [] v.t = "int" -> JStr(IntStr(v.n))
      [] v.t = "null" -> JStr(NoneText)
      [] v.t = "float" -> JStr(v.text)
      [] OTHER -> [t |-> "str", repr |-> v]

\* --------------------------------------------------------------- schedule
\* The days asked for, and strftime("%d.%m.%Y") of one.
TargetDates ==
    { [year |-> 2026, month |-> 2, day |-> 8],
      [year |-> 2026, month |-> 2, day |-> 9] }
Strftime(d) ==
    Format02d(d.day) \o <<".">> \o Format02d(d.month) \o <<".">> \o IntStr(d.year)

\* A document is a tuple of characters in which the text of a JSON scalar or
\* of an object without brackets stands as one element.  These are the texts
\* of the elements of the portal's Events arrays, each with the value
\* json.loads gives of it.
JsonTexts ==
    LET Day8 == <<"0", "8", ".", "0", "2", ".", "2", "0", "2", "6">>
        Day9 == <<"0", "9", ".", "0", "2", ".", "2", "0", "2", "6">>
    IN
    <<
       [text |-> "{\"Date\":\"08.02.2026\",\"Start\":510,\"End\":555,\"Text\":{\"0\":\"Math\"},\"Opet\":{\"0\":\"O: Smith\"}}",
        value |-> JObj(("Date" :> JStr(Day8))
                       @@ ("Start" :> JInt(510))
                       @@ ("End" :> JInt(555))
                       @@ ("Text" :> JObj("0" :> JStr(<<"M", "a", "t", "h">>)))
                       @@ ("Opet" :> JObj("0" :> JStr(<<"O", ":", " ", "S", "m", "i", "t", "h">>))))],
       [text |-> "{\"Date\":\"08.02.2026\",\"Start\":480,\"End\":525,\"Text\":{\"0\":\"Art\"}}",
        value |-> JObj(("Date" :> JStr(Day8))
                       @@ ("Start" :> JInt(480))
                       @@ ("End" :> JInt(525))
                       @@ ("Text" :> JObj("0" :> JStr(<<"A", "r", "t">>))))],
       [text |-> "{\"Date\":\"08.02.2026\",\"Start\":510,\"End\":600,\"Text\":{\"0\":\"Bio\"},\"LongText\":{\"0\":\"Lab\"}}",
        value |-> JObj(("Date" :> JStr(Day8))
                       @@ ("Start" :> JInt(510))
                       @@ ("End" :> JInt(600))
                       @@ ("Text" :> JObj("0" :> JStr(<<"B", "i", "o">>)))
                       @@ ("LongText" :> JObj("0" :> JStr(<<"L", "a", "b">>))))],
       [text |-> "{\"Date\":\"09.02.2026\",\"Start\":45,\"End\":90,\"Text\":\"Gym\"}",
        value |-> JObj(("Date" :> JStr(Day9))
                       @@ ("Start" :> JInt(45))
                       @@ ("End" :> JInt(90))
                       @@ ("Text" :> JStr(<<"G", "y", "m">>)))],
       [text |-> "{\"Date\":\"08.02.2026\",\"Start\":\"510\"}",
        value |-> JObj(("Date" :> JStr(Day8)) @@ ("Start" :> JStr(<<"5", "1", "0">>)))],
       [text |-> "{\"Date\":\"08.02.2026\",\"Start\":510.5}",
        value |-> JObj(("Date" :> JStr(Day8)) @@ ("Start" :> JFloat(<<"5", "1", "0", ".", "5">>)))],
       [text |-> "{\"Start\":600}",
        value |-> JObj("Start" :> JInt(600))],
       [text |-> "{\"Date\":\"09.02.2026\",\"Start\":null}",
        value |-> JObj(("Date" :> JStr(Day9)) @@ ("Start" :> JNull))],
       [text |-> "{\"Date\":\"08.02.2026\",\"Opet\":{\"0\":7}}",
        value |-> JObj(("Date" :> JStr(Day8)) @@ ("Opet" :> JObj("0" :> JInt(7))))],
       [text |-> "1", value |-> JInt(1)]
    >>

\* json.loads of one such element, NotJson for any other element.
JsonAtom(a) ==
    IF \E i \in 1..Len(JsonTexts) : JsonTexts[i].text = a
    THEN JsonTexts[CHOOSE i \in 1..Len(JsonTexts) : JsonTexts[i].text = a].value
    ELSE NotJson

\* json.loads of a text made of arrays and such elements: the value at index
\* i as [ok, v, next], and the items of an array opened before i.
RECURSIVE JsonValueAt(_, _)
RECURSIVE JsonItemsAt(_, _, _)
JsonValueAt(s, i0) ==
    LET i == SkipWs(s, i0)
    IN  IF i > Len(s) THEN [ok |-> FALSE]
        ELSE IF s[i] = "["
        THEN LET j == SkipWs(s, i + 1)
             IN  IF j <= Len(s) /\ s[j] = "]"
                 THEN [ok |-> TRUE, v |-> JList(<< >>), next |-> j + 1]
                 ELSE JsonItemsAt(s, i + 1, << >>)
        ELSE IF JsonAtom(s[i]) # NotJson
        THEN [ok |-> TRUE, v |-> JsonAtom(s[i]), next |-> i + 1]
        ELSE [ok |-> FALSE]

JsonItemsAt(s, i, acc) ==
    LET item == JsonValueAt(s, i)
    IN  IF ~item.ok THEN [ok |-> FALSE]
        ELSE LET j == SkipWs(s, item.next)
             IN  IF j > Len(s) THEN [ok |-> FALSE]
                 ELSE IF s[j] = "," THEN JsonItemsAt(s, j + 1, Append(acc, item.v))
                 ELSE IF s[j] = "]"
                 THEN [ok |-> TRUE, v |-> JList(Append(acc, item.v)), next |-> j + 1]
                 ELSE [ok |-> FALSE]

\* json.loads(s): the value, or NotJson where it raises JSONDecodeError.
JsonLoads(s) ==
    LET r == JsonValueAt(s, 1)
    IN  IF r.ok /\ SkipWs(s, r.next) = Len(s) + 1 THEN r.v ELSE NotJson

MarkerSpaced == <<"E", "v", "e", "n", "t", "s", " ", ":", " ", "[">>
MarkerTight == <<"E", "v", "e", "n", "t", "s", ":", " ", "[">>

\* The bracket-counting loop from index i on with bracket_count = count: the
\* index of the bracket that closes the array, 0 when the text ends first.
RECURSIVE MatchingEnd(_, _, _)
MatchingEnd(html, i, count) ==
    IF i > Len(html) THEN 0
    ELSE IF html[i] = "[" THEN MatchingEnd(html, i + 1, count + 1)
    ELSE IF html[i] = "]"
    THEN IF count - 1 = 0 THEN i ELSE MatchingEnd(html, i + 1, count - 1)
    ELSE MatchingEnd(html, i + 1, count)

\* events_str of _parse_schedule_from_html, or the early return without it.
ExtractEvents(html) ==
    LET spaced == FindFrom(html, MarkerSpaced, 1)
        events_start == IF spaced # 0 THEN spaced ELSE FindFrom(html, MarkerTight, 1)
        array_start == IF events_start = 0 THEN 0
                       ELSE FindFrom(html, <<"[">>, events_start)
        array_end == IF array_start = 0 THEN 0 ELSE MatchingEnd(html, array_start, 0)
    IN  IF array_end = 0 THEN [found |-> FALSE]
        ELSE [found |-> TRUE, text |-> SubSeq(html, array_start, array_end)]

\* What // and the d format raise on Start or End: nothing on an int,
\* ValueError on a float (// works, d does not), TypeError on anything else.
MinutesExc(v) ==
    CASE v.t = "int" -> "none"
      [] v.t = "float" -> "ValueError"
      [] OTHER -> "TypeError"

\* re.sub(r"^O:\s*", "", teacher)
StripTeacher(s) ==
    IF StartsWith(s, <<"O", ":">>) THEN SubSeq(s, SkipWs(s, 3), Len(s)) ELSE s

\* One pass of the loop over the events: the exception it raises, or the
\* lessons it appends (none when the event is of another day).
ScheduleEvent(event, target_date_str) ==
    IF event.t # "obj" THEN [exc |-> "AttributeError", lessons |-> << >>]
    ELSE IF DictGet(event.o, "Date", JStr(<< >>)) # JStr(target_date_str)
    THEN [exc |-> "none", lessons |-> << >>]
    ELSE
    LET start_mins == DictGet(event.o, "Start", JInt(0))
        end_mins == DictGet(event.o, "End", JInt(0))
        text_dict == DictGet(event.o, "Text", JObj(<< >>))
        long_text_dict == DictGet(event.o, "LongText", JObj(<< >>))
        opet_dict == DictGet(event.o, "Opet", JObj(<< >>))
        subject == IF text_dict.t = "obj" THEN DictGet(text_dict.o, "0", JStr(<< >>))
                   ELSE PyStr(text_dict)
        notes == IF long_text_dict.t = "obj"
                 THEN DictGet(long_text_dict.o, "0", JStr(<< >>))
                 ELSE JNull
        teacher == IF opet_dict.t = "obj" THEN DictGet(opet_dict.o, "0", JStr(<< >>))
                   ELSE JNull
    IN  IF MinutesExc(start_mins) # "none"
        THEN [exc |-> MinutesExc(start_mins), lessons |-> << >>]
        ELSE IF MinutesExc(end_mins) # "none"
        THEN [exc |-> MinutesExc(end_mins), lessons |-> << >>]
        ELSE IF Truthy(teacher) /\ teacher.t # "str"
        THEN [exc |-> "TypeError", lessons |-> << >>]
        ELSE [exc |-> "none",
              lessons |-> << [start_time |-> FormatMinutes(start_mins.n),
                              end_time |-> FormatMinutes(end_mins.n),
                              subject |-> subject,
                              teacher |-> IF Truthy(teacher)
                                          THEN JStr(StripTeacher(teacher.s))
                                          ELSE teacher,
                              notes |-> notes] >>]

\* The loop from event i on, lessons being the list so far: the loop stops at
\* the first exception and the lessons appended before it stay in the list.
RECURSIVE ScheduleLoop(_, _, _, _)
ScheduleLoop(events, i, target_date_str, lessons) ==
    IF i > Len(events) THEN [exc |-> "none", lessons |-> lessons]
    ELSE LET step == ScheduleEvent(events[i], target_date_str)
         IN  IF step.exc # "none" THEN [exc |-> step.exc, lessons |-> lessons]
             ELSE ScheduleLoop(events, i + 1, target_date_str,
                               lessons \o step.lessons)

\* A sort that is not stable: each lesson goes before those that do not start
\* earlier.
RECURSIVE InsertLesson_Front(_, _)
InsertLesson_Front(sorted, x) ==
    IF Len(sorted) = 0 THEN <<x>>
    ELSE IF ~StrLess(sorted[1].start_time, x.start_time) THEN <<x>> \o sorted
    ELSE <<sorted[1]>> \o InsertLesson_Front(Tail(sorted), x)

\* list.sort(key=start_time) is stable: each lesson goes behind those that do
\* not start later.
RECURSIVE InsertLesson(_, _)
InsertLesson(sorted, x) ==
    IF Len(sorted) = 0 THEN <<x>>
    ELSE IF StrLess(x.start_time, sorted[1].start_time) THEN <<x>> \o sorted
    ELSE <<sorted[1]>> \o InsertLesson(Tail(sorted), x)

RECURSIVE SortLessons(_)
SortLessons(lessons) ==
    IF Len(lessons) = 0 THEN << >>
    ELSE InsertLesson(SortLessons(SubSeq(lessons, 1, Len(lessons) - 1)),
                      lessons[Len(lessons)])

\* _parse_schedule_from_html(html, target_date): the exception that escapes
\* it (the try block catches JSONDecodeError, KeyError and TypeError), or the
\* DaySchedule it returns.
ParseScheduleFromHtml(html, target_date) ==
    LET ext == ExtractEvents(html)
        events == IF ext.found THEN JsonLoads(ext.text) ELSE NotJson
        loop == IF ~ext.found THEN [exc |-> "none", lessons |-> << >>]
                ELSE IF events = NotJson
                THEN [exc |-> "JSONDecodeError", lessons |-> << >>]
                ELSE ScheduleLoop(events.l, 1, Strftime(target_date), << >>)
    IN  IF loop.exc \notin {"none", "JSONDecodeError", "KeyError", "TypeError"}
        THEN [exc |-> loop.exc]
        ELSE [exc |-> "none",
              schedule |-> [date |-> target_date,
                            lessons |-> SortLessons(loop.lessons)]]

\* -------------------------------------------------------------- recipients
\* s.strip()
RECURSIVE Strip(_)
Strip(s) ==
    IF Len(s) = 0 THEN s
    ELSE IF s[1] \in Whitespace THEN Strip(Tail(s))
    ELSE IF s[Len(s)] \in Whitespace THEN Strip(SubSeq(s, 1, Len(s) - 1))
    ELSE s

\* The indices where c stands in s.
IndicesOf(s, c) == { i \in 1..Len(s) : s[i] = c }
Lowest(S) == CHOOSE i \in S : \A j \in S : i <= j
Highest(S) == CHOOSE i \in S : \A j \in S : j <= i

\* re.search(r"\(([^)]+)\)$", name) matches from the "(" at i: the first ")"
\* behind it is not next to it and ends the text ($ also matches before a
\* newline that ends the text).
RoleMatchAt(name, i) ==
    /\ name[i] = "("
    /\ \E j \in IndicesOf(name, ")") :
         /\ j > i + 1
         /\ \A k \in IndicesOf(name, ")") : k > i => j <= k
         /\ \/ j = Len(name)
            \/ j = Len(name) - 1 /\ name[Len(name)] = "\n"

\* Name and role of a recipient text: the role is group 1 of the leftmost
\* match, the name is name.rsplit("(", 1)[0].strip(), the text before the last
\* "(".
SplitRole(name) ==
    LET starts == { i \in 1..Len(name) : RoleMatchAt(name, i) }
    IN  IF starts = {} THEN [name |-> name, role |-> JNull]
        ELSE LET i == Lowest(starts)
                 j == Lowest({k \in IndicesOf(name, ")") : k > i})
             IN  [name |-> Strip(SubSeq(name, 1, Highest(IndicesOf(name, "(")) - 1)),
                  role |-> JStr(SubSeq(name, i + 1, j - 1))]

\* The Recipient of an id and a text.
MakeRecipient(id, text) ==
    [id |-> id, name |-> SplitRole(text).name, role |-> SplitRole(text).role]

\* _parse_recipients_from_html on the <option> elements that find_all gives,
\* each with its value attribute ("" when it has none) and its text.
RECURSIVE ParseRecipientsFromHtml(_)
ParseRecipientsFromHtml(options) ==
    IF Len(options) = 0 THEN << >>
    ELSE LET value == options[1].value
             name == Strip(options[1].text)
         IN  (IF Len(value) > 0 /\ value # <<"0">> /\ Len(name) > 0
              THEN <<MakeRecipient(value, name)>>
              ELSE << >>)
             \o ParseRecipientsFromHtml(Tail(options))

\* item.get(k1, item.get(k2, item.get(k3, ""))) as str
FirstOf(o, k1, k2, k3) ==
    PyStr(DictGet(o, k1, DictGet(o, k2, DictGet(o, k3, JStr(<< >>))))).s

\* _recipients_from_json_list(data)
RECURSIVE RecipientsFromJsonList(_)
RecipientsFromJsonList(data) ==
    IF Len(data) = 0 THEN << >>
    ELSE (IF data[1].t # "obj" THEN << >>
          ELSE LET rid == FirstOf(data[1].o, "id", "Id", "ID")
                   name == FirstOf(data[1].o, "text", "name", "Name")
               IN  IF Len(rid) = 0 \/ Len(name) = 0 THEN << >>
                   ELSE <<MakeRecipient(rid, name)>>)
         \o RecipientsFromJsonList(Tail(data))

\* The recipients of one pattern of _parse_recipients_from_js: found is what
\* json.loads gives of the pattern's group 1 (an array, or NotJson where it
\* raises), or NotFound.
NotFound == [t |-> "notfound"]
RecipientsOfMatch(found) ==
    IF found.t = "list" THEN RecipientsFromJsonList(found.l) ELSE << >>

\* _parse_recipients_from_js on the matches of its three patterns in the page:
\* data: [...], a recipients variable, and JSON.parse('[...]').
ParseRecipientsFromJs(page) ==
    IF RecipientsOfMatch(page.data) # << >> THEN RecipientsOfMatch(page.data)
    ELSE IF RecipientsOfMatch(page.assigned) # << >>
    THEN RecipientsOfMatch(page.assigned)
    ELSE RecipientsOfMatch(page.json_parse)

\* A cascade that joins the two strategies.
GetRecipients_Join(page) ==
    ParseRecipientsFromHtml(page.options) \o ParseRecipientsFromJs(page)

\* get_recipients on the compose page that _request returned.
GetRecipients(page) ==
    IF ParseRecipientsFromHtml(page.options) # << >>
    THEN ParseRecipientsFromHtml(page.options)
    ELSE IF ParseRecipientsFromJs(page) # << >>
    THEN ParseRecipientsFromJs(page)
    ELSE << >>

\* Recipient texts: every text of up to MaxText of these characters, and one of
\* the portal's.
RecipientTexts ==
    UNION { [1..n -> {"a", " ", "(", ")"}] : n \in 0..MaxText }
    \cup { <<"J", "a", "n", "e", " ", "D", "o", "e", " ", "(", "T", "e", "a", "c",
             "h", "e", "r", ")">> }

\* <option> elements: the placeholder, one without value, and recipients.
OptionLists ==
    LET Placeholder == [value |-> <<"0">>, text |-> <<"P", "i", "c", "k">>]
    IN
    { << >>, <<Placeholder>>, <<[value |-> << >>, text |-> <<"a">>]>> }
    \cup { <<Placeholder, [value |-> <<"4", "2">>, text |-> t]>> : t \in RecipientTexts }
    \cup { <<[value |-> <<"4", "2">>, text |-> <<"a">>],
             [value |-> <<"7">>, text |-> <<"\n", "a", " ", "(", "a", ")", " ">>]>> }

\* What the patterns of the script strategy find: nothing, text that is no
\* JSON, or an array of items.
ScriptMatches ==
    { NotFound, NotJson, JList(<< >>),
      JList(<<JStr(<<"a">>), JObj(("id" :> JStr(<< >>)) @@ ("text" :> JStr(<<"a">>))),
              JObj("id" :> JStr(<<"5">>))>>),
      JList(<<JObj(("Id" :> JInt(7)) @@ ("name" :> JStr(<<"a", " ", "(", "a", ")">>))),
              JObj(("ID" :> JStr(<<"9">>)) @@ ("Name" :> JStr(<<"a">>)))>>) }
    \cup { JList(<<JObj(("id" :> JStr(<<"4", "2">>)) @@ ("text" :> JStr(t)))>>) :
             t \in RecipientTexts }

\* The compose pages, by what each strategy finds in them: every option list
\* with a few script matches, and every script match under option lists
\* without recipient.
ComposePages ==
    LET Page(o, d, a, j) == [options |-> o, data |-> d, assigned |-> a, json_parse |-> j]
        one(id, text) == JList(<<JObj(("id" :> JStr(id)) @@ ("text" :> JStr(text)))>>)
        few == {NotFound, one(<<"1">>, <<"b">>)}
    IN  { Page(o, d, a, NotFound) :
            o \in OptionLists, d \in {NotFound, NotJson, one(<<"3">>, <<"d">>)}, a \in few }
        \cup { Page(o, d, a, j) :
                 o \in {l \in OptionLists : Len(l) <= 1}, d \in ScriptMatches, a \in few,
                 j \in {NotFound, one(<<"2">>, <<"c">>)} }

\* ------------------------------------------------------------ message list
\* int(s) of a text of digits.
RECURSIVE DigitsValue(_)
DigitsValue(s) ==
    IF Len(s) = 0 THEN 0
    ELSE DigitsValue(SubSeq(s, 1, Len(s) - 1)) * 10
         + (CHOOSE d \in 0..9 : IntDigits(d) = <<s[Len(s)]>>)

\* datetime.strptime(s, "%Y-%m-%d %H:%M"): four digits, "-", one or two
\* digits, "-", one or two digits, whitespace, one or two digits, ":", one or
\* two digits, each number in its range; ok is FALSE where it raises
\* ValueError.
Strptime(s) ==
    LET IsNumber(a, b) == a <= b /\ b - a < 2 /\ \A i \in a..b : s[i] \in Digits
        Number(a, b) == DigitsValue(SubSeq(s, a, b))
        dashes == { i \in IndicesOf(s, "-") : i > 5 }
        dash == Lowest(dashes)
        gaps == { i \in 1..Len(s) : i > dash /\ s[i] \in Whitespace }
        gap == Lowest(gaps)
        colons == { i \in IndicesOf(s, ":") : i > gap }
        colon == Lowest(colons)
        year == Number(1, 4)
        month == Number(6, dash - 1)
        day == Number(dash + 1, gap - 1)
        hour == Number(SkipWs(s, gap), colon - 1)
        minute == Number(colon + 1, Len(s))
        leap == year % 4 = 0 /\ (year % 100 # 0 \/ year % 400 = 0)
        days == IF month \in {4, 6, 9, 11} THEN 30
                ELSE IF month # 2 THEN 31
                ELSE IF leap THEN 29 ELSE 28
    IN  IF /\ Len(s) >= 5 /\ s[5] = "-"
           /\ \A i \in 1..4 : s[i] \in Digits
           /\ dashes # {} /\ IsNumber(6, dash - 1)
           /\ gaps # {} /\ IsNumber(dash + 1, gap - 1)
           /\ colons # {} /\ IsNumber(SkipWs(s, gap), colon - 1)
           /\ IsNumber(colon + 1, Len(s))
           /\ year >= 1
           /\ month \in 1..12
           /\ day \in 1..days
           /\ hour \in 0..23
           /\ minute \in 0..59
        THEN [ok |-> TRUE,
              value |-> [year |-> year, month |-> month, day |-> day,
                         hour |-> hour, minute |-> minute]]
        ELSE [ok |-> FALSE]

\* The MessageSummary of one item of the list, stamped with the clock's
\* reading whatever its TimeStamp.
MessageSummaryOf_StampNow(msg, folder, now) ==
    [id |-> PyStr(DictGet(msg.o, "Id", JStr(<< >>))).s,
     subject |-> DictGet(msg.o, "Subject", JStr(<< >>)),
     sender |-> DictGet(msg.o, "Sender", JStr(<< >>)),
     timestamp |-> now,
     is_read |-> DictGet(msg.o, "Status", JInt(0)) # JInt(0),
     folder |-> DictGet(msg.o, "Folder", JStr(folder))]

\* The MessageSummary of one item of the list, the clock reading now.
MessageSummaryOf(msg, folder, now) ==
    LET timestamp_str == DictGet(msg.o, "TimeStamp", JStr(<< >>)).s
    IN  [id |-> PyStr(DictGet(msg.o, "Id", JStr(<< >>))).s,
         subject |-> DictGet(msg.o, "Subject", JStr(<< >>)),
         sender |-> DictGet(msg.o, "Sender", JStr(<< >>)),
         timestamp |-> IF Strptime(timestamp_str).ok
                       THEN Strptime(timestamp_str).value
                       ELSE now,
         is_read |-> DictGet(msg.o, "Status", JInt(0)) # JInt(0),
         folder |-> DictGet(msg.o, "Folder", JStr(folder))]

\* _parse_messages_json(data, folder, limit): the exception it raises, or the
\* summaries of the items msg_list[:limit].
ParseMessagesJson(data, folder, limit, now) ==
    IF ParseMessagesExc(data, limit) # "none"
    THEN [exc |-> ParseMessagesExc(data, limit)]
    ELSE LET items == Slice(DictGet(data.o, "Messages", JList(<< >>)).l, limit)
         IN  [exc |-> "none",
              value |-> [k \in 1..Len(items) |->
                           MessageSummaryOf(items[k], folder, now)]]

\* get_messages(folder, limit) on the body of the response that _request
\* returned: json()'s ValueError becomes WilmaAPIError.
GetMessages(body, folder, limit, now) ==
    IF body = NotJson THEN [exc |-> "WilmaAPIError"]
    ELSE ParseMessagesJson(body, folder, limit, now)

\* The folders of get_messages.
Folders ==
    { <<"i", "n", "b", "o", "x">>, <<"s", "e", "n", "t">>,
      <<"a", "r", "c", "h", "i", "v", "e">> }

\* Readings of the clock: datetime.now() at two moments.
Clock ==
    { [year |-> 2026, month |-> 11, day |-> 1, hour |-> 12, minute |-> mi] :
        mi \in {0, 1} }

\* Items of the portal's message list: read and unread ones, one with nothing
\* but an Id, and ones with a TimeStamp that is no date, that is no day of the
\* calendar, that is null, and with a Status null and a Folder of the portal's.
MessageItems ==
    LET stamp == <<"2", "0", "2", "6", "-", "0", "2", "-", "0", "8", " ", "1", "1", ":",
                   "4", "2">>
    IN  { GoodItem, NullStampItem,
          JObj(("Id" :> JInt(8)) @@ ("TimeStamp" :> JStr(stamp)) @@ ("Status" :> JInt(1))),
          JObj("Id" :> JStr(<<"x", "1">>)),
          JObj(("Id" :> JInt(9)) @@ ("Status" :> JNull)
               @@ ("TimeStamp" :> JStr(<<"y", "e", "s", "t", "e", "r", "d", "a", "y">>))),
          JObj(("Id" :> JInt(10))
               @@ ("TimeStamp" :> JStr(<<"2", "0", "2", "6", "-", "0", "2", "-", "3", "0",
                                         " ", "1", "1", ":", "4", "2">>))),
          JObj(("Id" :> JInt(11)) @@ ("TimeStamp" :> JStr(stamp))
               @@ ("Folder" :> JStr(<<"t", "r", "a", "s", "h">>))) }

\* Bodies of GET /messages/list/index_json: those above, and every list of up
\* to MaxMessages of the items.
MessageListBodies ==
    MessageBodies
    \cup { JObj("Messages" :> JList(l)) :
             l \in UNION { [1..n -> MessageItems] : n \in 0..MaxMessages } }

\* ----------------------------------------------------------------- sending
\* The end of send_message and of reply_to_message on the response to the
\* compose POST, with the case of the body kept.
PostOutcome_CaseKept(response) ==
    IF Contains(Lower(response.url), <<"m", "e", "s", "s", "a", "g", "e", "s">>)
    THEN [exc |-> "none", value |-> TRUE]
    ELSE IF \/ Contains(response.text, <<"e", "r", "r", "o", "r">>)
            \/ Contains(response.text, <<"v", "i", "r", "h", "e">>)
    THEN [exc |-> "WilmaAPIError"]
    ELSE [exc |-> "none", value |-> TRUE]

\* The end of send_message and of reply_to_message on the response to the
\* compose POST: True when the final URL holds "messages", WilmaAPIError when
\* the body holds "error" or "virhe", True otherwise.
PostOutcome(response) ==
    IF Contains(Lower(response.url), <<"m", "e", "s", "s", "a", "g", "e", "s">>)
    THEN [exc |-> "none", value |-> TRUE]
    ELSE IF \/ Contains(Lower(response.text), <<"e", "r", "r", "o", "r">>)
            \/ Contains(Lower(response.text), <<"v", "i", "r", "h", "e">>)
    THEN [exc |-> "WilmaAPIError"]
    ELSE [exc |-> "none", value |-> TRUE]

\* Responses to the compose POST: the final URLs w/!12/messages,
\* w/!12/Messages/compose, w/login and w/!12/forms, with bodies that hold an
\* error keyword in either case, or none.
PostResponses ==
    { [url |-> u, text |-> b] :
        u \in { UrlMessages, UrlLogin,
                <<"w", "/", "!", "1", "2", "/", "M", "e", "s", "s", "a", "g", "e", "s", "/",
                  "c", "o", "m", "p", "o", "s", "e">>,
                <<"w", "/", "!", "1", "2", "/", "f", "o", "r", "m", "s">> },
        b \in { << >>, <<"o", "k">>, <<"a", "n", " ", "e", "r", "r", "o", "r", ".">>,
                <<"E", "r", "r", "o", "r">>, <<"V", "I", "R", "H", "E", "!">>,
                <<"v", "i", "r", "h", "e">>, <<"e", "r", "r", " ", "o", "r">> } }

\* ----------------------------------------------------------- single message
\* re.match at index i of
\* (\d{1,2})\.(\d{1,2})\.(\d{4})\s*(?:klo\s*)?(\d{1,2})[.:](\d{2}): the index
\* of the last character of the match and the five groups as integers.
SentStampAt(s, i) ==
    LET Digit(k) == k >= 1 /\ k <= Len(s) /\ s[k] \in Digits
        Is(k, C) == k >= 1 /\ k <= Len(s) /\ s[k] \in C
        \* The width of \d{1,2} at k before a character of C.
        Width(k, C) == IF Digit(k) /\ Digit(k + 1) /\ Is(k + 2, C) THEN 2 ELSE 1
        Minute(a, p2, b, p3, p4, c, p5) ==
            IF /\ Digit(i) /\ Is(i + a, {"."})
               /\ Digit(p2) /\ Is(p2 + b, {"."})
               /\ \A k \in p3..(p3 + 3) : Digit(k)
               /\ Digit(p4) /\ Is(p4 + c, {".", ":"})
               /\ Digit(p5) /\ Digit(p5 + 1)
            THEN [ok |-> TRUE, last |-> p5 + 1,
                  day |-> DigitsValue(SubSeq(s, i, i + a - 1)),
                  month |-> DigitsValue(SubSeq(s, p2, p2 + b - 1)),
                  year |-> DigitsValue(SubSeq(s, p3, p3 + 3)),
                  hour |-> DigitsValue(SubSeq(s, p4, p4 + c - 1)),
                  minute |-> DigitsValue(SubSeq(s, p5, p5 + 1))]
            ELSE [ok |-> FALSE]
        HourWidth(a, p2, b, p3, p4, c) == Minute(a, p2, b, p3, p4, c, p4 + c + 1)
        Hour(a, p2, b, p3, p4) ==
            HourWidth(a, p2, b, p3, p4, Width(p4, {".", ":"}))
        Klo(a, p2, b, p3, q) ==
            Hour(a, p2, b, p3,
                 IF OccursAt(s, <<"k", "l", "o">>, q) THEN SkipWs(s, q + 3) ELSE q)
        Year(a, p2, b, p3) == Klo(a, p2, b, p3, SkipWs(s, p3 + 4))
        MonthWidth(a, p2, b) == Year(a, p2, b, p2 + b + 1)
        Month(a, p2) == MonthWidth(a, p2, Width(p2, {"."}))
        Day(a) == Month(a, i + a + 1)
    IN  Day(Width(i, {"."}))

\* re.split of the stamp pattern on s from index i on: the index of the last
\* character of the last of the non-overlapping matches, 0 when there is
\* none.
RECURSIVE LastStamp(_, _)
LastStamp(s, i) ==
    LET Last(end, next) == IF next = 0 THEN end ELSE next
        After(end) == Last(end, LastStamp(s, end + 1))
        From(starts) ==
            IF starts = {} THEN 0
            ELSE After(SentStampAt(s, Lowest(starts)).last)
    IN  From({ k \in i..Len(s) : SentStampAt(s, k).ok })

\* re.sub(pattern, "", s) from index i on, for the two clean-up patterns:
\* the dialog is ×\s*Varmistus\s*Jatka\s*Peruuta, the reply link is
\* Vastaa viestin lähettäjälle.
RECURSIVE ReSub(_, _, _)
ReSub(s, i, pattern) ==
    LET after(w, k) == IF k # 0 /\ OccursAt(s, w, k) THEN k + Len(w) ELSE 0
        gap(k) == IF k = 0 THEN 0 ELSE SkipWs(s, k)
        end == IF pattern = "dialog"
               THEN after(<<"P", "e", "r", "u", "u", "t", "a">>,
                      gap(after(<<"J", "a", "t", "k", "a">>,
                        gap(after(<<"V", "a", "r", "m", "i", "s", "t", "u", "s">>,
                          gap(after(<<"×">>, i)))))))
               ELSE after(<<"V", "a", "s", "t", "a", "a", " ", "v", "i", "e", "s", "t", "i",
                       "n", " ", "l", "ä", "h", "e", "t", "t", "ä", "j", "ä", "l", "l", "e">>, i)
    IN  IF i > Len(s) THEN << >>
        ELSE IF end # 0 THEN ReSub(s, end, pattern)
        ELSE <<s[i]>> \o ReSub(s, i + 1, pattern)

\* _parse_message_from_html(html, message_id), the clock reading now.  The
\* page is what the soup finds in it: the text of the title, of the elements
\* behind the labels Lähettäjä and Lähetetty and of the panel body, JNull
\* where there is none.  datetime() raises ValueError on a date that is none.
ParseMessageFromHtml(page, message_id, now) ==
    LET Subject(title_text) ==
            LET cuts == { i \in 1..Len(title_text) :
                            OccursAt(title_text, <<" ", "-", " ", "W", "i", "l", "m", "a">>, i) }
            IN  IF cuts = {} THEN << >>
                ELSE Strip(SubSeq(title_text, 1, Highest(cuts) - 1))
        subject == IF page.title = JNull THEN << >>
                   ELSE Subject(Strip(page.title.s))
        sender == IF page.sender = JNull THEN << >> ELSE Strip(page.sender.s)
        \* datetime(year, month, day, hour, minute) of the groups g
        Datetime(g) ==
            LET leap == g.year % 4 = 0 /\ (g.year % 100 # 0 \/ g.year % 400 = 0)
                days == IF g.month \in {4, 6, 9, 11} THEN 30
                        ELSE IF g.month # 2 THEN 31
                        ELSE IF leap THEN 29 ELSE 28
            IN  IF /\ g.year >= 1 /\ g.month \in 1..12 /\ g.day \in 1..days
                   /\ g.hour \in 0..23 /\ g.minute \in 0..59
                THEN [ok |-> TRUE,
                      value |-> [year |-> g.year, month |-> g.month, day |-> g.day,
                                 hour |-> g.hour, minute |-> g.minute]]
                ELSE [ok |-> FALSE]
        \* re.search on time_text: the groups of the leftmost match
        Search(time_text, starts) ==
            IF starts = {} THEN [ok |-> TRUE, value |-> now]
            ELSE Datetime(SentStampAt(time_text, Lowest(starts)))
        Stamps(time_text) ==
            Search(time_text,
                   { k \in 1..Len(time_text) : SentStampAt(time_text, k).ok })
        timestamp == IF page.sent = JNull THEN [ok |-> TRUE, value |-> now]
                     ELSE Stamps(Strip(page.sent.s))
        Parts(full_text, last) ==
            IF last # 0
            THEN Strip(SubSeq(full_text, last + 1, Len(full_text)))
            ELSE full_text
        content == IF page.body = JNull THEN << >>
                   ELSE Parts(page.body.s, LastStamp(page.body.s, 1))
        Made(stamp) ==
            IF ~stamp.ok THEN [exc |-> "ValueError"]
            ELSE [exc |-> "none",
                  value |-> [id |-> message_id,
                             subject |-> subject,
                             sender |-> sender,
                             timestamp |-> stamp.value,
                             content |-> Strip(ReSub(ReSub(content, 1, "dialog"),
                                                     1, "reply")),
                             is_read |-> TRUE]]
    IN  Made(timestamp)

\* Message pages: with and without a title that ends in " - Wilma", a sender,
\* a sent stamp (with and without klo, one that is no stamp, one that is no
\* day of the calendar), and a panel body (plain, with the stamp before the
\* content, with the dialog and the reply link).
MessagePages ==
    { [title |-> t, sender |-> s, sent |-> w, body |-> b] :
        t \in { JNull, JStr(<<"H", "i", " ", "-", " ", "W", "i", "l", "m", "a">>), JStr(<<" ",
                "A", " ", "-", " ", "W", "i", "l", "m", "a", " ", "-", " ", "W", "i", "l", "m",
                        "a", " ">>),
                JStr(<<"W", "i", "l", "m", "a">>) },
        s \in { JNull, JStr(<<" ", "A", "d", "m", "i", "n", " ">>) },
        w \in { JNull, JStr(<<"8", ".", "2", ".", "2", "0", "2", "6", " ", "k", "l", "o", " ",
                "1", "1", ":", "4", "2">>), JStr(<<"0", "8", ".", "0", "2", ".", "2", "0", "2",
                        "6", " ", "1", "1", ".", "4", "2", " ">>),
                JStr(<<"s", "o", "o", "n">>), JStr(<<"3", "1", ".", "2", ".", "2", "0", "2",
                        "6", " ", "k", "l", "o", " ", "1", "1", ":", "4", "2">>) },
        b \in { JNull, JStr(<<"p", "l", "a", "i", "n">>),
                JStr(<<"A", "d", "m", "i", "n", " ", "8", ".", "2", ".", "2", "0", "2", "6",
                        " ", "k", "l", "o", " ", "1", "1", ":", "4", "2", " ", "H", "e", "l",
                                "l", "o", " ", "×", " ", "V", "a", "r", "m", "i", "s", "t",
                                        "u", "s", " ", "J", "a", "t", "k", "a", " ", "P", "e",
                                                "r", "u", "u", "t", "a">>),
                JStr(<<"1", ".", "1", ".", "2", "0", "2", "6", " ", "9", ":", "0", "0", " ",
                        "x", " ", "8", ".", "2", ".", "2", "0", "2", "6", " ", "k", "l", "o",
                                " ", "1", "1", ":", "4", "2", " ", "V", "a", "s", "t", "a",
                                        "a", " ", "v", "i", "e", "s", "t", "i", "n", " ", "l",
                                                "ä", "h", "e", "t", "t", "ä", "j", "ä", "l",
                                                        "l", "e", " ", "B", "y", "e">>) } }

\* ------------------------------------------------------------ compose form
\* The compose page is modelled by what the searches find in it: the inputs
\* named formkey of its text in document order, each with its value and the
\* order of its attributes (name then value, value then name, or apart, with
\* another attribute between the two), and the first form: its hidden inputs
\* with name and value ("" for an attribute left out), the name of its textarea
\* (None without textarea, "body" for one without name) and its action (empty
\* when left out).  Names and values are strings here.

\* A search that takes the first input named formkey, whatever the order of
\* its attributes.
FormkeySearch_Any(formkeys) ==
    IF Len(formkeys) = 0 THEN [found |-> FALSE]
    ELSE [found |-> TRUE, value |-> formkeys[1].value]

\* re.search(r'name="formkey"\s+value="([^"]*)"') and, without match,
\* re.search(r'value="([^"]*)"\s+name="formkey"').
FormkeySearch(formkeys) ==
    LET Of(order) == { i \in 1..Len(formkeys) : formkeys[i].order = order }
        First(order) == formkeys[Lowest(Of(order))].value
    IN  IF Of("name_value") # {} THEN [found |-> TRUE, value |-> First("name_value")]
        ELSE IF Of("value_name") # {} THEN [found |-> TRUE, value |-> First("value_name")]
        ELSE [found |-> FALSE]

\* ReplyCompose without the default for the reply reference.
ReplyCompose_NoDefault(page, message_id, body) ==
    LET formkey_match == FormkeySearch(page.formkeys)
        form == page.form
        RECURSIVE Hidden(_, _)
        Hidden(i, data) ==
            IF i > Len(form.hidden) THEN data
            ELSE Hidden(i + 1,
                        IF form.hidden[i].name # "" /\ form.hidden[i].name # "formkey"
                        THEN (form.hidden[i].name :> form.hidden[i].value) @@ data
                        ELSE data)
        collected == IF form.present THEN Hidden(1, "formkey" :> formkey_match.value)
                     ELSE "formkey" :> formkey_match.value
        body_field == IF form.present /\ form.textarea # None THEN form.textarea
                      ELSE "body"
        post_url == IF form.present /\ StartsWith(form.action, <<"/">>)
                    THEN form.action
                    ELSE <<"/", "m", "e", "s", "s", "a", "g", "e", "s", "/",
                           "c", "o", "m", "p", "o", "s", "e">>
    IN  IF ~formkey_match.found THEN [exc |-> "WilmaAPIError"]
        ELSE [exc |-> "none",
              post |-> [method |-> "POST", path |-> post_url,
                        data |-> (body_field :> body) @@ collected]]

\* reply_to_message(message_id, body) from the compose page that _request
\* returned to the compose POST: WilmaAPIError without formkey, else the
\* request it hands to _request.
ReplyCompose(page, message_id, body) ==
    LET formkey_match == FormkeySearch(page.formkeys)
        form == page.form
        RECURSIVE Hidden(_, _)
        Hidden(i, data) ==
            IF i > Len(form.hidden) THEN data
            ELSE Hidden(i + 1,
                        IF form.hidden[i].name # "" /\ form.hidden[i].name # "formkey"
                        THEN (form.hidden[i].name :> form.hidden[i].value) @@ data
                        ELSE data)
        collected == IF form.present THEN Hidden(1, "formkey" :> formkey_match.value)
                     ELSE "formkey" :> formkey_match.value
        body_field == IF form.present /\ form.textarea # None THEN form.textarea
                      ELSE "body"
        Referenced(data) ==
            IF "answer" \notin DOMAIN data /\ "replyto" \notin DOMAIN data
            THEN ("answer" :> message_id) @@ data
            ELSE data
        post_url == IF form.present /\ StartsWith(form.action, <<"/">>)
                    THEN form.action
                    ELSE <<"/", "m", "e", "s", "s", "a", "g", "e", "s", "/",
                           "c", "o", "m", "p", "o", "s", "e">>
    IN  IF ~formkey_match.found THEN [exc |-> "WilmaAPIError"]
        ELSE [exc |-> "none",
              post |-> [method |-> "POST", path |-> post_url,
                        data |-> Referenced((body_field :> body) @@ collected)]]

\* send_message(recipient_ids, subject, body, reply_to_id) from the compose
\* page to the compose POST: the request it hands to _request, the formkey
\* empty when the page shows none.
SendCompose(page, recipient_ids, subject, body, reply_to_id) ==
    LET formkey_match == FormkeySearch(page.formkeys)
        RECURSIVE Join(_)
        Join(ids) == IF Len(ids) = 0 THEN ""
                     ELSE IF Len(ids) = 1 THEN ids[1]
                     ELSE ids[1] \o "," \o Join(Tail(ids))
        data == [formkey |-> IF formkey_match.found THEN formkey_match.value ELSE "",
                 rcpt |-> Join(recipient_ids),
                 subject |-> subject,
                 body |-> body]
    IN  [exc |-> "none",
         post |-> [method |-> "POST",
                   path |-> <<"/", "m", "e", "s", "s", "a", "g", "e", "s", "/",
                              "c", "o", "m", "p", "o", "s", "e">>,
                   data |-> IF reply_to_id # None /\ reply_to_id # ""
                            THEN ("replyto" :> reply_to_id) @@ data
                            ELSE data]]

\* ------------------------------------------------------- Finnish timestamps
\* datetime.strptime's regex for the format fmt matched on s from index i on,
\* fmt read from token k on: a token is a directive (d, m, Y, H, M, S) or a
\* character.  A directive takes two digits before one (Y takes four) when
\* their value is one its pattern allows and the rest of the format matches
\* behind them; a blank of the format takes any run of whitespace.  The
\* result is the fields read into got, and the index behind the match.
RECURSIVE StrpFrom(_, _, _, _, _)
StrpFrom(s, i, fmt, k, got) ==
    LET Digit(j) == j >= 1 /\ j <= Len(s) /\ s[j] \in Digits
        Fail == [ok |-> FALSE]
        Allowed(tok, w, v) ==
            CASE tok = "d" -> v >= 1 /\ (IF w = 2 THEN v <= 31 ELSE TRUE)
              [] tok = "m" -> v >= 1 /\ (IF w = 2 THEN v <= 12 ELSE TRUE)
              [] tok = "H" -> IF w = 2 THEN v <= 23 ELSE TRUE
              [] tok = "M" -> IF w = 2 THEN v <= 59 ELSE TRUE
              [] tok = "S" -> IF w = 2 THEN v <= 61 ELSE TRUE
              [] tok = "Y" -> TRUE
        Rest(tok, w, v) ==
            IF Allowed(tok, w, v)
            THEN StrpFrom(s, i + w, fmt, k + 1, [got EXCEPT ![tok] = v])
            ELSE Fail
        Take(tok, w) ==
            IF \A j \in i..(i + w - 1) : Digit(j)
            THEN Rest(tok, w, DigitsValue(SubSeq(s, i, i + w - 1)))
            ELSE Fail
        Longest(tok, two) == IF two.ok THEN two ELSE Take(tok, 1)
        Directive(tok) ==
            IF tok = "Y" THEN Take(tok, 4) ELSE Longest(tok, Take(tok, 2))
        Literal(tok) ==
            IF i > Len(s) THEN Fail
            ELSE IF tok = " "
            THEN (IF s[i] \in Whitespace
                  THEN StrpFrom(s, SkipWs(s, i), fmt, k + 1, got)
                  ELSE Fail)
            ELSE IF s[i] = tok THEN StrpFrom(s, i + 1, fmt, k + 1, got)
            ELSE Fail
    IN  IF k > Len(fmt) THEN [ok |-> TRUE, end |-> i, got |-> got]
        ELSE IF fmt[k] \in {"d", "m", "Y", "H", "M", "S"} THEN Directive(fmt[k])
        ELSE Literal(fmt[k])

\* _parse_finnish_timestamp(timestamp_str), the clock reading now: the
\* datetime it returns, or the ValueError that datetime() raises in the
\* fallback on the components.
ParseFinnishTimestamp(timestamp_str, now) ==
    LET s == Strip(timestamp_str)
        formats == << <<"d", ".", "m", ".", "Y", " ", "H", ":", "M">>,
                      <<"d", ".", "m", ".", "Y", " ", "H", ".", "M">>,
                      <<"d", ".", "m", ".", "Y">>,
                      <<"d", ".", "m", ".", " ", "H", ":", "M">>,
                      <<"d", ".", "m", ".">>,
                      <<"Y", "-", "m", "-", "d", " ", "H", ":", "M", ":", "S">>,
                      <<"Y", "-", "m", "-", "d">> >>
        Digit(j) == j >= 1 /\ j <= Len(s) /\ s[j] \in Digits
        Is(j, C) == j >= 1 /\ j <= Len(s) /\ s[j] \in C
        Num(a, b) == DigitsValue(SubSeq(s, a, b))
        \* datetime(Y, m, d, H, M, S) is a date and a time of day
        Valid(g) ==
            LET leap == g.Y % 4 = 0 /\ (g.Y % 100 # 0 \/ g.Y % 400 = 0)
                days == IF g.m \in {4, 6, 9, 11} THEN 30
                        ELSE IF g.m # 2 THEN 31
                        ELSE IF leap THEN 29 ELSE 28
            IN  /\ g.Y \in 1..9999 /\ g.m \in 1..12 /\ g.d \in 1..days
                /\ g.H \in 0..23 /\ g.M \in 0..59 /\ g.S \in 0..59
        Datetime(g) ==
            [year |-> g.Y, month |-> g.m, day |-> g.d, hour |-> g.H,
             minute |-> g.M, second |-> g.S]
        \* strptime(s, formats[f]): raises ValueError without match, with
        \* text left behind the match, and on a date that is none
        Strp(f) ==
            StrpFrom(s, 1, formats[f], 1,
                     [Y |-> 1900, m |-> 1, d |-> 1, H |-> 0, M |-> 0, S |-> 0])
        Parses(r) == r.ok /\ r.end = Len(s) + 1 /\ Valid(r.got)
        matched == { f \in 1..Len(formats) : Parses(Strp(f)) }
        Replaced(g) == IF g.Y = 1900 THEN [g EXCEPT !.Y = now.year] ELSE g
        \* (\d{1,2})\.(\d{1,2})\.?(\d{2,4})? at index j
        DayWidth(j) == IF Digit(j) /\ Digit(j + 1) /\ Is(j + 2, {"."}) THEN 2 ELSE 1
        DateAt(j) == Digit(j) /\ Is(j + DayWidth(j), {"."}) /\ Digit(j + DayWidth(j) + 1)
        YearOf(q) ==
            LET n == IF \A j \in q..(q + 3) : Digit(j) THEN 4
                     ELSE IF \A j \in q..(q + 2) : Digit(j) THEN 3
                     ELSE IF \A j \in q..(q + 1) : Digit(j) THEN 2 ELSE 0
            IN  IF n = 0 THEN now.year
                ELSE IF Num(q, q + n - 1) < 100 THEN Num(q, q + n - 1) + 2000
                ELSE Num(q, q + n - 1)
        MonthEnd(p) == IF Digit(p + 1) THEN p + 1 ELSE p
        DateFrom(j, p) ==
            [d |-> Num(j, p - 2), m |-> Num(p, MonthEnd(p)),
             Y |-> YearOf(IF Is(MonthEnd(p) + 1, {"."}) THEN MonthEnd(p) + 2
                          ELSE MonthEnd(p) + 1)]
        \* (\d{1,2})[.:](\d{2}) at index j
        HourWidth(j) ==
            IF Digit(j) /\ Digit(j + 1) /\ Is(j + 2, {".", ":"}) /\ Digit(j + 3) /\ Digit(j + 4)
            THEN 2 ELSE 1
        TimeAt(j) ==
            /\ Digit(j) /\ Is(j + HourWidth(j), {".", ":"})
            /\ Digit(j + HourWidth(j) + 1) /\ Digit(j + HourWidth(j) + 2)
        TimeFrom(j, w) ==
            [H |-> Num(j, j + w - 1), M |-> Num(j + w + 1, j + w + 2), S |-> 0]
        dates == { j \in 1..Len(s) : DateAt(j) }
        times == { j \in 1..Len(s) : TimeAt(j) }
        Components(date, time) ==
            IF Valid(date @@ time) THEN [exc |-> "none", value |-> Datetime(date @@ time)]
            ELSE [exc |-> "ValueError"]
        Date(j) == DateFrom(j, j + DayWidth(j) + 1)
        Time(j) == TimeFrom(j, HourWidth(j))
    IN  IF Len(timestamp_str) = 0 THEN [exc |-> "none", value |-> now]
        ELSE IF matched # {}
        THEN [exc |-> "none",
              value |-> Datetime(Replaced(Strp(Lowest(matched)).got))]
        ELSE IF dates # {}
        THEN Components(Date(Lowest(dates)),
                        IF times # {} THEN Time(Lowest(times))
                        ELSE [H |-> 0, M |-> 0, S |-> 0])
        ELSE [exc |-> "none", value |-> now]

\* ------------------------------------------------------------ week schedule
\* calendar.monthrange(year, month)[1]
DaysInMonth(year, month) ==
    IF month = 2
    THEN IF year % 4 = 0 /\ (year % 100 # 0 \/ year % 400 = 0) THEN 29 ELSE 28
    ELSE IF month \in {4, 6, 9, 11} THEN 30
    ELSE 31

\* d + timedelta(days=n)
RECURSIVE AddDays(_, _)
AddDays(d, n) ==
    IF n = 0 THEN d
    ELSE IF d.day < DaysInMonth(d.year, d.month)
    THEN AddDays([d EXCEPT !.day = @ + 1], n - 1)
    ELSE IF d.month < 12
    THEN AddDays([d EXCEPT !.day = 1, !.month = @ + 1], n - 1)
    ELSE AddDays([year |-> d.year + 1, month |-> 1, day |-> 1], n - 1)

\* Whether DayCount\s*:\s*(\d+) matches at index i, and the index where its
\* group 1 starts.
DayCountDigits(html, i) == SkipWs(html, SkipWs(html, i + 8) + 1)
DayCountAt(html, i) ==
    /\ OccursAt(html, <<"D", "a", "y", "C", "o", "u", "n", "t">>, i)
    /\ SkipWs(html, i + 8) <= Len(html)
    /\ html[SkipWs(html, i + 8)] = ":"
    /\ DayCountDigits(html, i) <= Len(html)
    /\ html[DayCountDigits(html, i)] \in Digits

\* day_count: int(group 1) of the leftmost match of the search, 5 without one.
DayCountOf(html) ==
    LET matches == { i \in 1..Len(html) : DayCountAt(html, i) }
        Value(k) == DigitsValue(SubSeq(html, k, DigitsEnd(html, k)))
    IN  IF matches = {} THEN 5
        ELSE Value(DayCountDigits(html, Lowest(matches)))

\* One pass of the week's loop over the events: the exception it raises, or
\* the lesson it appends to schedules_by_date under the event's Date (none
\* when the Date is missing or falsy; a Date that is a list or a dict cannot
\* be a key).
WeekEvent(event) ==
    IF event.t # "obj" THEN [exc |-> "AttributeError", entries |-> << >>]
    ELSE IF ~Truthy(DictGet(event.o, "Date", JStr(<< >>)))
    THEN [exc |-> "none", entries |-> << >>]
    ELSE
    LET event_date == DictGet(event.o, "Date", JStr(<< >>))
        start_mins == DictGet(event.o, "Start", JInt(0))
        end_mins == DictGet(event.o, "End", JInt(0))
        text_dict == DictGet(event.o, "Text", JObj(<< >>))
        long_text_dict == DictGet(event.o, "LongText", JObj(<< >>))
        opet_dict == DictGet(event.o, "Opet", JObj(<< >>))
        subject == IF text_dict.t = "obj" THEN DictGet(text_dict.o, "0", JStr(<< >>))
                   ELSE PyStr(text_dict)
        notes == IF long_text_dict.t = "obj"
                 THEN DictGet(long_text_dict.o, "0", JStr(<< >>))
                 ELSE JNull
        teacher == IF opet_dict.t = "obj" THEN DictGet(opet_dict.o, "0", JStr(<< >>))
                   ELSE JNull
    IN  IF MinutesExc(start_mins) # "none"
        THEN [exc |-> MinutesExc(start_mins), entries |-> << >>]
        ELSE IF MinutesExc(end_mins) # "none"
        THEN [exc |-> MinutesExc(end_mins), entries |-> << >>]
        ELSE IF Truthy(teacher) /\ teacher.t # "str"
        THEN [exc |-> "TypeError", entries |-> << >>]
        ELSE IF event_date.t \in {"list", "obj"}
        THEN [exc |-> "TypeError", entries |-> << >>]
        ELSE [exc |-> "none",
              entries |-> << [event_date |-> event_date,
                              lesson |-> [start_time |-> FormatMinutes(start_mins.n),
                                          end_time |-> FormatMinutes(end_mins.n),
                                          subject |-> subject,
                                          teacher |-> IF Truthy(teacher)
                                                      THEN JStr(StripTeacher(teacher.s))
                                                      ELSE teacher,
                                          notes |-> notes]] >>]

\* The week's loop from event i on, entries being the lessons appended so
\* far, each with the key of its list in schedules_by_date.
RECURSIVE WeekLoop(_, _, _)
WeekLoop(events, i, entries) ==
    IF i > Len(events) THEN [exc |-> "none", entries |-> entries]
    ELSE LET step == WeekEvent(events[i])
         IN  IF step.exc # "none" THEN [exc |-> step.exc, entries |-> << >>]
             ELSE WeekLoop(events, i + 1, entries \o step.entries)

\* schedules_by_date.get(day_str, []): the lessons appended under day_str, in
\* the order of the events.
RECURSIVE LessonsOf(_, _)
LessonsOf(entries, day_str) ==
    IF Len(entries) = 0 THEN << >>
    ELSE IF entries[1].event_date = JStr(day_str)
    THEN <<entries[1].lesson>> \o LessonsOf(Tail(entries), day_str)
    ELSE LessonsOf(Tail(entries), day_str)

\* The list of DaySchedules that ends the method: one for each of n days from
\* start_date on, with the day's lessons sorted by start time.
WeekSchedules(start_date, n, entries) ==
    [i \in 1..n |->
        [date |-> AddDays(start_date, i - 1),
         lessons |-> SortLessons(LessonsOf(entries,
                                           Strftime(AddDays(start_date, i - 1))))]]

\* _parse_week_schedule_from_html(html, start_date): the exception that
\* escapes it, or the list it returns; the early returns give day_count
\* empty days, the except clause five.
ParseWeekScheduleFromHtml(html, start_date) ==
    LET ext == ExtractEvents(html)
        events == IF ext.found THEN JsonLoads(ext.text) ELSE NotJson
        loop == IF ~ext.found THEN [exc |-> "none", entries |-> << >>]
                ELSE IF events = NotJson
                THEN [exc |-> "JSONDecodeError", entries |-> << >>]
                ELSE WeekLoop(events.l, 1, << >>)
    IN  IF loop.exc \in {"JSONDecodeError", "KeyError", "TypeError"}
        THEN [exc |-> "none", schedules |-> WeekSchedules(start_date, 5, << >>)]
        ELSE IF loop.exc # "none" THEN [exc |-> loop.exc]
        ELSE [exc |-> "none",
              schedules |-> WeekSchedules(start_date, DayCountOf(html), loop.entries)]

\* ------------------------------------------------------------------ parsing
\* The text of a JSON array of the given element texts.
RECURSIVE ArrayItems(_)
ArrayItems(texts) ==
    IF Len(texts) <= 1 THEN texts
    ELSE <<texts[1], ",">> \o ArrayItems(Tail(texts))
ArrayText(texts) == <<"[">> \o ArrayItems(texts) \o <<"]">>

\* The Events arrays the portal sends: up to MaxEvents elements.
EventArrays ==
    UNION { [1..n -> { JsonTexts[i].text : i \in 1..Len(JsonTexts) }] :
              n \in 0..MaxEvents }

\* The schedule pages: "Events : [...];" with each array and "Events: [...];"
\* with the short ones, and pages without marker, with an array that is not
\* closed, with text that is no JSON, with an array inside the array, with
\* both markers, with a bracket after the array, and with arrays nested in
\* an array of the array.
ScheduleDocs ==
    { <<"x">> \o MarkerSpaced \o Tail(ArrayText(a)) \o <<";">> : a \in EventArrays }
    \cup { MarkerTight \o Tail(ArrayText(a)) \o <<";">> :
             a \in {b \in EventArrays : Len(b) <= 1} }
    \cup { <<"x", "[", "]">>,
           MarkerSpaced \o <<JsonTexts[1].text>>,
           MarkerSpaced \o <<"x", "]">>,
           MarkerSpaced \o <<"[", JsonTexts[1].text, "]", "]">>,
           MarkerTight \o <<JsonTexts[2].text, "]">> \o MarkerSpaced \o <<JsonTexts[1].text, "]">>,
           MarkerSpaced \o <<JsonTexts[1].text, "]", "]">>,
           MarkerSpaced \o <<"[", "[", "]", "]", ",", JsonTexts[1].text, "]", ";", "]">> }

\* The session a client holds when a parsing method runs: none yet, or the
\* one of a login.
HeldSessions ==
    { [session_id |-> None, user_prefix |-> NoPrefix],
      [session_id |-> "xyz", user_prefix |-> <<"/", "!", "0", "4", "1", "1", "8", "7", "6">>] }

InitParse ==
    /\ \E s \in HeldSessions :
         /\ session_id = s.session_id
         /\ user_prefix = s.user_prefix
         /\ cookies = s.session_id
         /\ has_client = (s.session_id # None)
    /\ co = [t \in Tasks |-> NewCo]
    /\ calls = 0
    /\ login_raised = FALSE

\* What the parsing method of call c returns or raises when it runs once more,
\* the clock reading now.
ParseApply(c, now) ==
    CASE c.op = "_parse_schedule_from_html" ->
           ParseScheduleFromHtml(c.args.html, c.args.target_date)
      [] c.op = "get_messages" ->
           GetMessages(c.args.body, c.args.folder, c.args.limit, now)
      [] c.op \in {"send_message", "reply_to_message"} ->
           PostOutcome(c.args.response)
      [] c.op = "get_recipients" ->
           [exc |-> "none", value |-> GetRecipients(c.args.page)]
      [] c.op = "_parse_message_from_html" ->
           ParseMessageFromHtml(c.args.page, c.args.message_id, now)

\* Coroutine t calls a parsing method of the client with args; the method runs
\* to its end without awaiting and gives result.
ParseCall(t, op, args, now, result) ==
    /\ co' = [co EXCEPT ![t] = [pc |-> "done", op |-> op, args |-> args,
                                now |-> now, result |-> result]]
    /\ UNCHANGED <<session_id, user_prefix, cookies, has_client, calls,
                   login_raised>>

CallParseSchedule(t) ==
    /\ co[t].pc = "idle"
    /\ \E html \in ScheduleDocs, target_date \in TargetDates :
         ParseCall(t, "_parse_schedule_from_html",
                   [html |-> html, target_date |-> target_date], 0,
                   ParseScheduleFromHtml(html, target_date))

\* The weeks asked for: they start on 8.2.2026, and before the end of a
\* February of 28 days, of one of 29, and of a year.
WeekStarts ==
    { [year |-> 2026, month |-> 2, day |-> 8],
      [year |-> 2026, month |-> 2, day |-> 27],
      [year |-> 2024, month |-> 2, day |-> 27],
      [year |-> 2026, month |-> 12, day |-> 30] }

\* The week's pages: those of a day (with arrays of up to MaxWeekEvents
\* elements, no marker, an array that is not closed, text that is no JSON)
\* behind nothing, "DayCount : 2," or "DayCount:12,".
WeekDocs ==
    LET DayCount == <<"D", "a", "y", "C", "o", "u", "n", "t">>
        heads == { << >>, DayCount \o <<" ", ":", " ", "2", ",">>,
                   DayCount \o <<":", "1", "2", ",">> }
        pages == { MarkerSpaced \o Tail(ArrayText(a)) \o <<";">> :
                     a \in {b \in EventArrays : Len(b) <= MaxWeekEvents} }
                 \cup { <<"x", "[", "]">>,
                        MarkerTight \o <<JsonTexts[1].text>>,
                        MarkerSpaced \o <<"x", "]">> }
    IN  { h \o d : h \in heads, d \in pages }

\* get_week_schedule runs on from the page that _request returned.
CallParseWeek(t) ==
    /\ co[t].pc = "idle"
    /\ \E html \in WeekDocs, start_date \in WeekStarts :
         ParseCall(t, "_parse_week_schedule_from_html",
                   [html |-> html, start_date |-> start_date], 0,
                   ParseWeekScheduleFromHtml(html, start_date))

\* get_recipients runs on from the compose page that _request returned.
CallGetRecipients(t) ==
    /\ co[t].pc = "idle"
    /\ \E page \in ComposePages :
         ParseCall(t, "get_recipients", [page |-> page], 0,
                   [exc |-> "none", value |-> GetRecipients(page)])

\* get_messages(folder, limit) runs on from the response that _request
\* returned, and reads the clock where it needs it.
CallGetMessages(t) ==
    /\ co[t].pc = "idle"
    /\ \E body \in MessageListBodies, folder \in Folders,
          limit \in {-1, 0, 1, 2, DefaultLimit}, now \in Clock :
         ParseCall(t, "get_messages",
                   [body |-> body, folder |-> folder, limit |-> limit], now,
                   GetMessages(body, folder, limit, now))

\* send_message, or reply_to_message, runs on from the response to its
\* compose POST that _request returned.
PostReturn(t) ==
    /\ co[t].pc = "idle"
    /\ \E op \in {"send_message", "reply_to_message"}, response \in PostResponses :
         ParseCall(t, op, [response |-> response], 0, PostOutcome(response))

\* get_message(message_id) runs on from the page that _request returned, and
\* reads the clock before it looks for the stamp.
CallParseMessage(t) ==
    /\ co[t].pc = "idle"
    /\ \E page \in MessagePages, now \in Clock :
         ParseCall(t, "_parse_message_from_html",
                   [page |-> page, message_id |-> <<"7">>], now,
                   ParseMessageFromHtml(page, <<"7">>, now))

\* The loop of _parse_schedule_from_html reaches an event of the day asked
\* for, with Start and End in minutes of the day and Text, LongText and Opet
\* as the portal sends them, and makes its Lesson.
LessonOfEvent(t) ==
    /\ co[t].pc = "idle"
    /\ LET day == [year |-> 2026, month |-> 2, day |-> 8]
           dict(v) == JObj("0" :> JStr(v))
       IN  \E start \in 0..(MinutesOfDay - 1), end \in {0, 555, 600, MinutesOfDay - 1},
              fields \in { ("Text" :> dict(<<"M", "a", "t", "h">>))
                             @@ ("Opet" :> dict(<<"O", ":", " ", "J", ".", " ", "D", "o", "e">>)),
                           ("Text" :> dict(<<"B", "i", "o">>))
                             @@ ("LongText" :> dict(<<"L", "a", "b">>))
                             @@ ("Opet" :> dict(<<"O", ":", "R", "o", "e">>)),
                           ("Text" :> dict(<<"A", "r", "t">>)) @@ ("Opet" :> dict(<< >>)) } :
             LET event == JObj(("Date" :> JStr(Strftime(day)))
                               @@ ("Start" :> JInt(start)) @@ ("End" :> JInt(end))
                               @@ fields)
             IN  ParseCall(t, "Lesson", [event |-> event, target_date |-> day], 0,
                           ScheduleEvent(event, Strftime(day)))

\* The formkey inputs of the compose pages: none, one in either order of the
\* attributes, one with an attribute between, one with an empty value, and
\* one of each order with the second order first.
FormkeyInputs ==
    LET nv == [order |-> "name_value", value |-> "k1"]
        vn == [order |-> "value_name", value |-> "k2"]
    IN  { << >>, <<nv>>, <<vn>>, <<vn, nv>>,
          <<[order |-> "apart", value |-> "k3"]>>,
          <<[order |-> "name_value", value |-> ""]>> }

\* reply_to_message runs on from the reply form that _request returned, up
\* to its compose POST.
ReplyForm(t) ==
    /\ co[t].pc = "idle"
    /\ LET inputs == { [name |-> "answer", value |-> "41"],
                       [name |-> "replyto", value |-> "40"],
                       [name |-> "rcpt", value |-> "9"],
                       [name |-> "formkey", value |-> "zz"],
                       [name |-> "", value |-> "v"],
                       [name |-> "body", value |-> ""] }
           forms == { [present |-> FALSE] }
                    \cup { [present |-> TRUE, hidden |-> h, textarea |-> ta, action |-> a] :
                             h \in UNION { [1..n -> inputs] : n \in 0..MaxHidden },
                             ta \in {None, "body", "message", "answer", "formkey"},
                             a \in { << >>, <<"/", "r">>, <<"r">> } }
       IN  \E formkeys \in FormkeyInputs, form \in forms :
             ParseCall(t, "reply_to_message.compose",
                       [page |-> [formkeys |-> formkeys, form |-> form],
                        message_id |-> "7", body |-> "Hello"], 0,
                       ReplyCompose([formkeys |-> formkeys, form |-> form], "7", "Hello"))

\* send_message runs on from the compose page that _request returned, up to
\* its compose POST.
SendForm(t) ==
    /\ co[t].pc = "idle"
    /\ \E formkeys \in FormkeyInputs, recipient_ids \in { <<"1">>, <<"1", "2">> },
          reply_to_id \in {None, "", "5"} :
         ParseCall(t, "send_message.compose",
                   [page |-> [formkeys |-> formkeys], recipient_ids |-> recipient_ids,
                    subject |-> "Hi", body |-> "Hello", reply_to_id |-> reply_to_id], 0,
                   SendCompose([formkeys |-> formkeys], recipient_ids, "Hi", "Hello",
                               reply_to_id))

\* A message parser of parsers.py hands the text of a timestamp cell to
\* _parse_finnish_timestamp: the listed formats, texts with something around
\* the date, dates that are none, and texts without a date.
CallParseFinnishTimestamp(t) ==
    /\ co[t].pc = "idle"
    /\ \E timestamp_str \in
            { << >>, <<" ", " ">>, <<"1", "5", ".", "3", ".", "2", "0", "2", "4", " ", "1",
                    "4", ":", "3", "0">>, <<"1", "5", ".", "3", ".", "2", "0", "2", "4", " ",
                            "1", "4", ".", "3", "0">>,
              <<"1", "5", ".", "3", ".", "2", "0", "2", "4">>, <<"1", "5", ".", "3", ".", " ",
                      "1", "4", ":", "3", "0">>, <<"1", "5", ".", "3", ".">>,
              <<"2", "0", "2", "4", "-", "0", "3", "-", "1", "5", " ", "1", "4", ":", "3", "0",
                      ":", "0", "5">>, <<"2", "0", "2", "4", "-", "0", "3", "-", "1", "5">>,
                              <<" ", "1", "5", ".", "3", ".", "2", "0", "2", "4", " ">>,
              <<"9", "9", ".", "1", "3", ".", "2", "0", "2", "4">>, <<"2", "9", ".", "2",
                      ".">>, <<"3", "1", ".", "4", ".", "2", "0", "2", "4">>, <<"1", ".", "1",
                              ".", "1", "9", "0", "0">>,
              <<"1", "5", ".", "3", ".", "2", "4", " ", "1", "4", ":", "3", "0">>, <<"1", "5",
                      ".", "3", ".", "2", "0", "2", "4", " ", "2", "5", ":", "0", "0">>,
              <<"S", "e", "n", "t", " ", "1", "5", ".", "3", ".", "2", "0", "2", "4", " ", "1",
                      "4", ":", "3", "0">>, <<"k", "l", "o", " ", "9", ":", "0", "5">>, <<"y",
                              "e", "s", "t", "e", "r", "d", "a", "y">>,
              <<"5", ".", "1", "2">>, <<"7", ".", "8", ".", "9">> },
          now \in Clock :
         ParseCall(t, "_parse_finnish_timestamp", [timestamp_str |-> timestamp_str],
                   now, ParseFinnishTimestamp(timestamp_str, now))

\* The caller runs the parsing method of its call once more on the same
\* arguments, the clock reading later where the method reads it.
ParseAgain(t) ==
    /\ co[t].pc = "done"
    /\ co[t].op \in {"_parse_schedule_from_html", "get_messages", "get_recipients",
                     "_parse_message_from_html", "send_message", "reply_to_message"}
    /\ LET timed == co[t].op \in {"get_messages", "_parse_message_from_html"}
       IN  \E later \in (IF timed THEN Clock ELSE {co[t].now}) :
             co' = [co EXCEPT ![t] =
                      [pc |-> "again", later |-> later,
                       again |-> ParseApply(co[t], later)] @@ co[t]]
    /\ UNCHANGED <<session_id, user_prefix, cookies, has_client, calls,
                   login_raised>>

NextParse ==
    \/ CallParseSchedule(1)
    \/ CallGetMessages(1)
    \/ CallGetRecipients(1)
    \/ PostReturn(1)
    \/ CallParseMessage(1)
    \/ LessonOfEvent(1)
    \/ ReplyForm(1)
    \/ SendForm(1)
    \/ CallParseFinnishTimestamp(1)
    \/ CallParseWeek(1)
    \/ ParseAgain(1)

SpecParse == InitParse /\ [][NextParse]_vars

\* ------------------------------------------------------------------ claims
InLogin(c) == c.pc \in {"boot", "post", "post_got"}
Returned(c) == c.pc \in {"idle", "done"}
\* The step is coroutine t's call of the client.
CallStep(t) == Returned(co[t]) /\ ~Returned(co'[t])
\* The step is coroutine t's login() running on from the login POST's response.
FinishStep(t) ==
    /\ co[t].pc = "post_got"
    /\ co'[t].pc # "post_got"
    /\ co[t].login_response.kind = "response"

\* C1: one _request call sends the original request at most twice and runs at
\* most one login() because of an expiry; the second send comes only after that
\* login(), and repeats the method and the rewritten path of the first.
C1_SingleRetry ==
    \A t \in Tasks :
        /\ Len(co[t].sent) <= 2
        /\ co[t].relogins <= 1
        /\ Len(co[t].sent) = 2 =>
              /\ co[t].relogins = 1
              /\ co[t].sent[2] = co[t].sent[1]
        /\ co[t].pc = "retry" => Len(co[t].sent) = 2
        /\ (InLogin(co[t]) /\ co[t].ret = "expiry") =>
              (Len(co[t].sent) = 1 /\ co[t].relogins = 1)

\* The request was sent again after an expiry, under a prefix that the login()
\* in between had replaced, and the answer was the login page once more.
C1_Witness ==
    \E t \in Tasks :
        /\ co[t].pc = "done"
        /\ Len(co[t].sent) = 2
        /\ co[t].response.kind = "response"
        /\ IsExpired(co[t].response)
        /\ co[t].path # co[t].arg_path
        /\ user_prefix # NoPrefix
        /\ ~StartsWith(co[t].path, user_prefix)

\* C2: when the request sent again after the expiry login ends on the login
\* page too, _request raises WilmaAPIError.
C2_SecondExpiryRaises ==
    \A t \in Tasks :
        ( /\ co[t].pc = "done"
          /\ Len(co[t].sent) = 2
          /\ co[t].response.kind = "response"
          /\ IsExpired(co[t].response) )
        => co[t].result = "WilmaAPIError"

\* C3: a call that finds cookie and prefix held starts no login(): its next
\* network call is the request itself and the session fields stay as they are;
\* _ensure_authenticated starts login() only when one of the two is not held.
C3_EnsureNoOp ==
    [][\A t \in Tasks :
         CallStep(t) =>
            IF session_id # None /\ user_prefix # NoPrefix
            THEN /\ co'[t].pc = "req"
                 /\ Len(co'[t].sent) = 1
                 /\ session_id' = session_id
                 /\ user_prefix' = user_prefix
                 /\ cookies' = cookies
            ELSE /\ co'[t].pc = "boot"
                 /\ co'[t].ret = "ensure"
                 /\ co'[t].sent = << >>]_vars

\* A second call went straight to its request on the session an earlier login()
\* had left.
C3_Witness ==
    \E t \in Tasks :
        /\ co[t].pc = "req"
        /\ co[t].ret = "none"
        /\ session_id # None
        /\ user_prefix # NoPrefix

\* C4: login() gets past the cookie check exactly when the jar holds Wilma2SID
\* after the login POST; without it login() raises WilmaAuthError whatever the
\* status, and with it and a prefix to be found login() returns whatever the
\* status.
C4_CookieDecides ==
    [][\A t \in Tasks :
         FinishStep(t) =>
            LET r == co[t].login_response
            IN  /\ (cookies = None) =>
                      /\ co'[t].pc = "done"
                      /\ co'[t].result = "WilmaAuthError"
                      /\ session_id' = None
                /\ (cookies # None) => session_id' = cookies
                /\ (cookies # None /\ FindPrefix(r.url, r.text) # NoPrefix) =>
                      co'[t].pc \in {"req", "retry"}]_vars

\* A login() returned on a POST answered with status 500 and the cookie.
C4_Witness ==
    \E t \in Tasks :
        /\ co[t].pc = "req"
        /\ co[t].login_response.kind = "response"
        /\ co[t].login_response.status = 500
        /\ session_id = cookies
        /\ cookies # None

\* A body of GET /index_json that is no JSON, or JSON without a non-empty
\* SessionID.
NoToken(b) ==
    \/ b = NotJson
    \/ b.t # "obj"
    \/ "SessionID" \notin DOMAIN b.o
    \/ ~Truthy(b.o["SessionID"])

\* C5: on a bootstrap body that is no JSON or has no non-empty SessionID,
\* login() raises WilmaAuthError and sends no login POST.
C5_BadBootstrapIsAuthError ==
    \A t \in Tasks :
        ( /\ co[t].index_response.kind = "response"
          /\ NoToken(co[t].index_response.body) )
        => (co[t].pc = "done" /\ co[t].result = "WilmaAuthError")

\* /!\d+ matches s from position i to position j, greedily.
MatchesAt(s, i, j) ==
    /\ 1 <= i
    /\ i + 2 <= j
    /\ j <= Len(s)
    /\ s[i] = "/"
    /\ s[i + 1] = "!"
    /\ \A k \in (i + 2)..j : s[k] \in Digits
    /\ (j < Len(s) => s[j + 1] \notin Digits)

\* p is the leftmost match of /!\d+ in s that directly follows `lead`.
LeftmostMatch(s, lead, p) ==
    \E i \in 1..Len(s) :
        /\ OccursAt(s, lead, i)
        /\ MatchesAt(s, i + Len(lead), i + Len(lead) + Len(p) - 1)
        /\ p = SubSeq(s, i + Len(lead), i + Len(lead) + Len(p) - 1)
        /\ \A k \in 1..(i - 1) :
              ~(OccursAt(s, lead, k) /\
                \E j \in 1..Len(s) : MatchesAt(s, k + Len(lead), j))

\* /!\d+ directly after `lead` matches nowhere in s.
NoMatch(s, lead) ==
    \A i \in 1..Len(s), j \in 1..Len(s) :
        ~(OccursAt(s, lead, i) /\ MatchesAt(s, i + Len(lead), j))

\* C6: after a login POST that leaves the cookie, the prefix held is the
\* leftmost /!<digits> of the final URL; if the URL has none, the leftmost one
\* that opens an href of the body; if there is none either, login() raises
\* WilmaAuthError.  The final URL w/!0411876/x gives /!0411876.
C6_PrefixFromUrlThenBody ==
    [][\A t \in Tasks :
         (FinishStep(t) /\ cookies # None) =>
            LET r == co[t].login_response
            IN  /\ ~NoMatch(r.url, << >>) =>
                      /\ LeftmostMatch(r.url, << >>, user_prefix')
                      /\ co'[t].pc \in {"req", "retry"}
                /\ (NoMatch(r.url, << >>) /\ ~NoMatch(r.text, HrefOpen)) =>
                      /\ LeftmostMatch(r.text, HrefOpen, user_prefix')
                      /\ co'[t].pc \in {"req", "retry"}
                /\ (NoMatch(r.url, << >>) /\ NoMatch(r.text, HrefOpen)) =>
                      /\ co'[t].pc = "done"
                      /\ co'[t].result = "WilmaAuthError"
                      /\ user_prefix' = user_prefix
                /\ r.url = UrlHome =>
                      user_prefix' = <<"/", "!", "0", "4", "1", "1", "8", "7", "6">>]_vars

\* The login POST ended on w/!0411876/x with a body holding href="/!55", and the
\* prefix held is /!0411876.
C6_Witness ==
    \E t \in Tasks :
        /\ co[t].pc = "req"
        /\ co[t].login_response.kind = "response"
        /\ co[t].login_response.url = UrlHome
        /\ co[t].login_response.text = TextHref
        /\ session_id # None
        /\ user_prefix = <<"/", "!", "0", "4", "1", "1", "8", "7", "6">>

\* C7: a transport fault of the request, or of the request sent again, ends
\* _request with WilmaAPIError; no HTTP call follows it.
C7_FaultNotRetried ==
    \A t \in Tasks :
        co[t].response.kind = "transport" =>
            /\ co[t].pc = "done"
            /\ co[t].result = "WilmaAPIError"
            /\ Len(co[t].sent) \in {1, 2}
            /\ Len(co[t].sent) = co[t].relogins + 1

\* The request sent again after the expiry login met a transport fault.
C7_Witness ==
    \E t \in Tasks :
        /\ co[t].response.kind = "transport"
        /\ co[t].pc = "done"
        /\ Len(co[t].sent) = 2

\* C8: every call ends with a success value, WilmaAuthError or WilmaAPIError.
C8_OnlyDeclaredErrors ==
    \A t \in Tasks :
        co[t].pc = "done" =>
            co[t].result \in {"ok", "WilmaAuthError", "WilmaAPIError"}

\* C9: when every call has returned and no login() has raised, the client holds
\* a session id and a prefix.
C9_SessionHeldAtRest ==
    ( /\ calls > 0
      /\ \A t \in Tasks : Returned(co[t])
      /\ ~login_raised )
    => (session_id # None /\ session_id = cookies /\ user_prefix # NoPrefix)

\* Two coroutines each ran login(), one of them after an expiry reset, no
\* login() raised, and both calls have returned.
C9_Witness ==
    /\ \A t \in Tasks : co[t].pc = "done" /\ co[t].ret # "none"
    /\ \E t \in Tasks : co[t].relogins = 1
    /\ ~login_raised
    /\ session_id # None

\* C10: at most one login handshake is in flight at any time.
C10_LoginSerialized ==
    Cardinality({t \in Tasks : InLogin(co[t])}) <= 1

\* The coroutine has called the parsing method op and the call has ended.
Parsed(c, op) == c.pc \in {"done", "again"} /\ c.op = op

\* The Events array of a page as the parser decodes it: NotJson when the
\* marker is missing, the brackets do not balance or the text is no JSON.
EventsOf(html) ==
    IF ExtractEvents(html).found THEN JsonLoads(ExtractEvents(html).text)
    ELSE NotJson

\* Start or End is there and no integer.
BadMinutes(event, k) == k \in DOMAIN event.o /\ event.o[k].t # "int"

\* C11: for every document _parse_schedule_from_html returns a DaySchedule and
\* raises nothing, and the lesson list is empty when the marker is missing, the
\* brackets are unbalanced, the text is no JSON, or the array holds an element
\* that is no object or whose Start or End is no integer.
C11_ScheduleParseNeverRaises ==
    \A t \in Tasks :
        Parsed(co[t], "_parse_schedule_from_html") =>
            /\ co[t].result.exc = "none"
            /\ LET events == EventsOf(co[t].args.html)
               IN  (\/ events = NotJson
                    \/ \E i \in 1..Len(events.l) :
                         \/ events.l[i].t # "obj"
                         \/ BadMinutes(events.l[i], "Start")
                         \/ BadMinutes(events.l[i], "End"))
                   => co[t].result.schedule.lessons = << >>

\* The event is one of the day asked for.
OfDay(event, d) ==
    /\ event.t = "obj"
    /\ "Date" \in DOMAIN event.o
    /\ event.o["Date"] = JStr(Strftime(d))

\* The event has what a lesson needs: Start and End integers where given, and
\* a teacher that is text where given.
WellFormed(event) ==
    /\ ~BadMinutes(event, "Start")
    /\ ~BadMinutes(event, "End")
    /\ ("Opet" \in DOMAIN event.o /\ event.o["Opet"].t = "obj"
        /\ "0" \in DOMAIN event.o["Opet"].o)
       => event.o["Opet"].o["0"].t = "str"

\* The lessons are those of the events at the indices idxs, each once, in
\* non-decreasing order of start time, equal start times in source order.
LessonsAre(lessons, events, idxs, d) ==
    /\ Len(lessons) = Cardinality(idxs)
    /\ \A i \in 1..Len(lessons), j \in 1..Len(lessons) :
         i < j => ~StrLess(lessons[j].start_time, lessons[i].start_time)
    /\ \E p \in [1..Len(lessons) -> idxs] :
         /\ \A i \in 1..Len(lessons) :
              <<lessons[i]>> = ScheduleEvent(events[p[i]], Strftime(d)).lessons
         /\ \A i \in 1..Len(lessons), j \in 1..Len(lessons) :
              /\ i # j => p[i] # p[j]
              /\ (i < j /\ lessons[i].start_time = lessons[j].start_time)
                 => p[i] < p[j]

\* C12 as stated: the lessons of a returned DaySchedule for d are those of
\* every well-formed event whose Date is d formatted DD.MM.YYYY and of no
\* other, in non-decreasing start-time order, equal start times in source
\* order.
C12_AllOfTheDayInOrder ==
    \A t \in Tasks :
        (/\ Parsed(co[t], "_parse_schedule_from_html")
         /\ co[t].result.exc = "none"
         /\ EventsOf(co[t].args.html) # NotJson) =>
            LET events == EventsOf(co[t].args.html).l
                d == co[t].args.target_date
            IN  LessonsAre(co[t].result.schedule.lessons, events,
                           { i \in 1..Len(events) :
                               OfDay(events[i], d) /\ WellFormed(events[i]) },
                           d)

\* C12, amended: the same of the events of d that stand in the array before the
\* first event of d that is not well-formed (all of them when there is none).
C12_DayInOrderUpToMalformed ==
    \A t \in Tasks :
        (/\ Parsed(co[t], "_parse_schedule_from_html")
         /\ co[t].result.exc = "none"
         /\ EventsOf(co[t].args.html) # NotJson) =>
            LET events == EventsOf(co[t].args.html).l
                d == co[t].args.target_date
            IN  LessonsAre(co[t].result.schedule.lessons, events,
                           { i \in 1..Len(events) :
                               /\ OfDay(events[i], d)
                               /\ \A j \in 1..i :
                                    OfDay(events[j], d) => WellFormed(events[j]) },
                           d)

\* A day's schedule was returned with two lessons of equal start time, from an
\* array that also holds an event of another day.
C12_Witness ==
    \E t \in Tasks :
        /\ Parsed(co[t], "_parse_schedule_from_html")
        /\ co[t].result.exc = "none"
        /\ EventsOf(co[t].args.html) # NotJson
        /\ LET lessons == co[t].result.schedule.lessons
               events == EventsOf(co[t].args.html).l
           IN  /\ Len(lessons) >= 2
               /\ lessons[1].start_time = lessons[2].start_time
               /\ lessons[1] # lessons[2]
               /\ \E i \in 1..Len(events) :
                    events[i].t = "obj" /\ ~OfDay(events[i], co[t].args.target_date)

\* The strategies of get_recipients on a page, each with the list it yields.
OptionRecipients(page) == ParseRecipientsFromHtml(page.options)
ScriptRecipients(page) ==
    << RecipientsOfMatch(page.data), RecipientsOfMatch(page.assigned),
       RecipientsOfMatch(page.json_parse) >>

\* C13: get_recipients returns the list of the <option> strategy exactly when
\* that list is not empty; otherwise the list of the first script pattern that
\* yields one; and the empty list, with no error, when none does.
C13_FirstStrategyWins ==
    \A t \in Tasks :
        Parsed(co[t], "get_recipients") =>
            LET page == co[t].args.page
                value == co[t].result.value
                scripts == ScriptRecipients(page)
            IN  /\ co[t].result.exc = "none"
                /\ OptionRecipients(page) # << >> => value = OptionRecipients(page)
                /\ OptionRecipients(page) = << >> =>
                      \/ \E k \in 1..3 :
                           /\ scripts[k] # << >>
                           /\ \A j \in 1..(k - 1) : scripts[j] = << >>
                           /\ value = scripts[k]
                      \/ /\ \A k \in 1..3 : scripts[k] = << >>
                         /\ value = << >>

\* get_recipients returned the options' recipients from a page whose script
\* holds recipients too.
C13_Witness ==
    \E t \in Tasks :
        /\ Parsed(co[t], "get_recipients")
        /\ OptionRecipients(co[t].args.page) # << >>
        /\ ScriptRecipients(co[t].args.page)[1] # << >>
        /\ co[t].result.value = OptionRecipients(co[t].args.page)

\* The Recipient the name/role rule gives: a text that ends with "(R)", R
\* without parenthesis and not empty, gives the text before that parenthesis,
\* trimmed, and the role R; any other text gives itself and no role.
RuleRecipient(id, text) ==
    LET opens == IndicesOf(text, "(")
        k == Highest(opens)
        ends == /\ opens # {}
                /\ text[Len(text)] = ")"
                /\ k < Len(text) - 1
                /\ \A i \in (k + 1)..(Len(text) - 1) : text[i] # ")"
    IN  IF ends
        THEN [id |-> id, name |-> Strip(SubSeq(text, 1, k - 1)),
              role |-> JStr(SubSeq(text, k + 1, Len(text) - 1))]
        ELSE [id |-> id, name |-> text, role |-> JNull]

\* The entries a strategy makes recipients of: options with a value other than
\* "0" and a text, items with an id and a text.
IsEntry(option) ==
    /\ Len(option.value) > 0
    /\ option.value # <<"0">>
    /\ Len(Strip(option.text)) > 0
IsItem(item) ==
    /\ item.t = "obj"
    /\ Len(FirstOf(item.o, "id", "Id", "ID")) > 0
    /\ Len(FirstOf(item.o, "text", "name", "Name")) > 0

\* C14: in both strategies every recipient entry with id i and text t gives
\* the Recipient of the rule: name and role split at the closing parenthetical,
\* the id unchanged.
C14_NameRoleSplit ==
    \A t \in Tasks :
        Parsed(co[t], "get_recipients") =>
            LET page == co[t].args.page
                value == co[t].result.value
                entries == SelectSeq(page.options, IsEntry)
                items == IF page.data.t = "list" THEN SelectSeq(page.data.l, IsItem)
                         ELSE << >>
            IN  /\ entries # << >> =>
                      value = [k \in 1..Len(entries) |->
                                 RuleRecipient(entries[k].value, Strip(entries[k].text))]
                /\ (entries = << >> /\ items # << >>) =>
                      value = [k \in 1..Len(items) |->
                                 RuleRecipient(FirstOf(items[k].o, "id", "Id", "ID"),
                                               FirstOf(items[k].o, "text", "name", "Name"))]

\* get_messages has run on a body that holds a list of objects.
ParsedList(c) ==
    /\ Parsed(c, "get_messages")
    /\ c.args.body.t = "obj"
    /\ "Messages" \in DOMAIN c.args.body.o
    /\ c.args.body.o["Messages"].t = "list"
    /\ \A k \in 1..Len(c.args.body.o["Messages"].l) :
         c.args.body.o["Messages"].l[k].t = "obj"

\* C15: every item of the message list gives, without error, a MessageSummary
\* whose id is the item's Id as a string, whose subject and sender are the
\* item's, whose is_read holds iff Status is present and not 0, and whose
\* timestamp is the TimeStamp parsed as YYYY-MM-DD HH:MM, or the current time
\* when that is unparsable or missing; {Id: 7, Status: 0} gives is_read false.
C15_SummaryOfItem ==
    \A t \in Tasks :
        (ParsedList(co[t]) /\ co[t].args.limit = DefaultLimit) =>
            LET items == co[t].args.body.o["Messages"].l
                value == co[t].result.value
            IN  /\ co[t].result.exc = "none"
                /\ Len(value) = Len(items)
                /\ \A k \in 1..Len(items) :
                     LET item == items[k].o
                         has(f) == f \in DOMAIN item
                     IN  /\ has("Id") /\ item["Id"].t = "int" =>
                               value[k].id = IntStr(item["Id"].n)
                         /\ has("Id") /\ item["Id"].t = "str" =>
                               value[k].id = item["Id"].s
                         /\ has("Subject") => value[k].subject = item["Subject"]
                         /\ has("Sender") => value[k].sender = item["Sender"]
                         /\ value[k].is_read = (has("Status") /\ item["Status"] # JInt(0))
                         /\ IF has("TimeStamp") /\ item["TimeStamp"].t = "str"
                               /\ Strptime(item["TimeStamp"].s).ok
                            THEN value[k].timestamp = Strptime(item["TimeStamp"].s).value
                            ELSE value[k].timestamp = co[t].now
                         /\ (has("Id") /\ item["Id"] = JInt(7) /\ has("Status")
                             /\ item["Status"] = JInt(0)) => ~value[k].is_read

\* C16: for every integer limit get_messages returns no more than limit
\* messages, none when limit <= 0, and they are the leading items of the list
\* in the portal's order.
C16_AtMostLimit ==
    \A t \in Tasks :
        (ParsedList(co[t]) /\ co[t].result.exc = "none") =>
            LET items == co[t].args.body.o["Messages"].l
                value == co[t].result.value
                limit == co[t].args.limit
            IN  /\ Len(value) <= (IF limit > 0 THEN limit ELSE 0)
                /\ Len(value) <= Len(items)
                /\ \A k \in 1..Len(value) :
                     value[k] = MessageSummaryOf(items[k], co[t].args.folder, co[t].now)

\* C17: every MessageSummary that get_messages(folder, limit) returns carries
\* the requested folder, one of inbox, sent and archive, as its folder tag,
\* whatever the items hold.
C17_FolderIsRequested ==
    \A t \in Tasks :
        (Parsed(co[t], "get_messages") /\ co[t].result.exc = "none") =>
            \A k \in 1..Len(co[t].result.value) :
                /\ co[t].result.value[k].folder = JStr(co[t].args.folder)
                /\ co[t].args.folder \in Folders

\* The text holds the word in some case.
HoldsWord(text, word) ==
    \E i \in 1..Len(text) :
        /\ i + Len(word) - 1 <= Len(text)
        /\ \A k \in 1..Len(word) : LowerChar(text[i + k - 1]) = word[k]

\* C18: send_message and reply_to_message return True iff the final URL of the
\* compose POST holds the message-list path "messages" or the body holds none
\* of the error keywords "error" and "virhe", in any case; otherwise they raise
\* WilmaAPIError; they never return False.
C18_TrueOrApiError ==
    \A t \in Tasks :
        (Parsed(co[t], "send_message") \/ Parsed(co[t], "reply_to_message")) =>
            LET response == co[t].args.response
                sent == \/ HoldsWord(response.url, <<"m", "e", "s", "s", "a", "g", "e", "s">>)
                        \/ /\ ~HoldsWord(response.text, <<"e", "r", "r", "o", "r">>)
                           /\ ~HoldsWord(response.text, <<"v", "i", "r", "h", "e">>)
            IN  /\ (co[t].result = [exc |-> "none", value |-> TRUE]) <=> sent
                /\ ~sent => co[t].result = [exc |-> "WilmaAPIError"]

\* A reply ended with WilmaAPIError on the body "Error" under the final URL
\* w/login.
C18_Witness ==
    \E t \in Tasks :
        /\ Parsed(co[t], "reply_to_message")
        /\ co[t].args.response.text = <<"E", "r", "r", "o", "r">>
        /\ co[t].args.response.url = UrlLogin
        /\ co[t].result.exc = "WilmaAPIError"

\* The entity v2, made when the clock read later, equals v1, made when it
\* read now; where the timestamp fell back on the clock, each holds the
\* reading of its parse and they are equal in every other field.
SameButClock(v1, v2, now, later, fallback) ==
    IF fallback
    THEN /\ v1.timestamp = now
         /\ v2.timestamp = later
         /\ [v1 EXCEPT !.timestamp = later] = v2
    ELSE v1 = v2

\* The text behind the label Lähetetty gives no timestamp.
NoStamp(sent) ==
    \/ sent = JNull
    \/ \A k \in 1..Len(Strip(sent.s)) : ~SentStampAt(Strip(sent.s), k).ok

\* The second run of the parse of call c ended as the first: the same
\* exception, or equal objects but for timestamps that are the clock's.
TwiceEqualButClock(c) ==
    IF c.result.exc # "none" THEN c.again = c.result
    ELSE CASE c.op = "get_messages" ->
                LET items == DictGet(c.args.body.o, "Messages", JList(<< >>)).l
                    Unstamped(k) ==
                        ~Strptime(DictGet(items[k].o, "TimeStamp", JStr(<< >>)).s).ok
                IN  /\ c.again.exc = "none"
                    /\ Len(c.again.value) = Len(c.result.value)
                    /\ \A k \in 1..Len(c.result.value) :
                         SameButClock(c.result.value[k], c.again.value[k],
                                      c.now, c.later, Unstamped(k))
           [] c.op = "_parse_message_from_html" ->
                /\ c.again.exc = "none"
                /\ SameButClock(c.result.value, c.again.value, c.now, c.later,
                                NoStamp(c.args.page.sent))
           [] OTHER -> c.again = c.result

Relogin(t) == co[t].ret = "expiry" /\ co[t].pc \in {"boot", "post", "post_got"}

\* C20: while the login() that _request calls on an expiry runs, the client
\* holds neither the session id nor the prefix of the expired session: both
\* were cleared before login() was called.
C20_ExpiryClearsSession ==
    \A t \in Tasks :
        Relogin(t) => session_id = None /\ user_prefix = NoPrefix

\* The path starts with "/!" or with "/preferences".
Rooted(path) == StartsWith(path, BangMarker) \/ StartsWith(path, PreferencesRoot)

\* Coroutine t sends a request in this step.
Sends(t) == Len(co'[t].sent) = Len(co[t].sent) + 1

\* C21: every request that _request sends goes to a path that starts with
\* "/!" or "/preferences".  When the request is sent first, a caller's path
\* that starts so is sent as it is, and any other as the prefix the client
\* holds at that moment, which is not None, followed by the caller's path;
\* the request sent again after an expiry goes to the path of the first.
C21_PathsPrefixedOnce ==
    [][\A t \in Tasks :
         Sends(t)
         => LET n == Len(co'[t].sent)
                path == co'[t].sent[n].path
            IN  /\ Rooted(path)
                /\ n = 1 /\ Rooted(co'[t].arg_path) => path = co'[t].arg_path
                /\ n = 1 /\ ~Rooted(co'[t].arg_path)
                   => /\ user_prefix' # NoPrefix
                      /\ path = user_prefix' \o co'[t].arg_path
                /\ n > 1 => path = co'[t].sent[1].path]_vars

\* A call with the path /schedule was sent as /!<digits>/schedule, met the
\* login page, and was sent again to that path after the login.
C21_Witness ==
    \E t \in Tasks :
        /\ Len(co[t].sent) = 2
        /\ ~Rooted(co[t].arg_path)
        /\ co[t].sent[1].path = user_prefix \o co[t].arg_path
        /\ co[t].sent[2].path = co[t].sent[1].path

\* The indices where either spelling of the marker starts in html.
MarkerStarts(html) ==
    { i \in 1..Len(html) :
        OccursAt(html, MarkerSpaced, i) \/ OccursAt(html, MarkerTight, i) }

\* The "[" brackets less the "]" brackets of html[a..b].
Depth(html, a, b) ==
    Cardinality({ k \in a..b : html[k] = "[" })
    - Cardinality({ k \in a..b : html[k] = "]" })

\* The array behind the marker that starts at index m: the index of its
\* first "[" and the indices where the nesting depth is back at zero.
ArrayStart(html, m) == Lowest({ j \in m..Len(html) : html[j] = "[" })
ArrayEnds(html, m) ==
    { j \in ArrayStart(html, m)..Len(html) : Depth(html, ArrayStart(html, m), j) = 0 }

\* C22: when the document holds a marker in either spelling and the array
\* behind the first one is bracket-balanced, the text handed to the JSON
\* parser runs from the first "[" at or behind that marker to the "]" where
\* the nesting depth is first back at zero.
C22_SubstringOfFirstMarker ==
    \A t \in Tasks :
        LET html == co[t].args.html
            m == Lowest(MarkerStarts(html))
        IN  (/\ Parsed(co[t], "_parse_schedule_from_html")
             /\ MarkerStarts(html) # {}
             /\ ArrayEnds(html, m) # {})
            => ExtractEvents(html)
               = [found |-> TRUE,
                  text |-> SubSeq(html, ArrayStart(html, m),
                                  Lowest(ArrayEnds(html, m)))]

\* The text is HH:MM of the minute mins of the day: five characters, two
\* digits that read mins div 60, a colon, two digits that read mins mod 60.
IsClockText(text, mins) ==
    /\ Len(text) = 5
    /\ text[3] = ":"
    /\ \A i \in {1, 2, 4, 5} : text[i] \in Digits
    /\ DigitsValue(SubSeq(text, 1, 2)) = mins \div 60
    /\ DigitsValue(SubSeq(text, 4, 5)) = mins % 60

\* The "0" entry of the field of the event, the empty text without the
\* field.
Entry0(event, field) ==
    IF field \in DOMAIN event.o THEN event.o[field].o["0"] ELSE JStr(<< >>)

\* C23: an event with integer Start and End in 0..1439 gives one Lesson whose
\* start_time and end_time are the five-character HH:MM texts of Start and
\* End, so that the texts are ordered as the numbers are; subject, notes and
\* teacher are the "0" entries of Text, LongText and Opet, the teacher
\* without a leading "O:" and the blanks behind it.
C23_LessonOfEvent ==
    \A t \in Tasks :
        Parsed(co[t], "Lesson")
        => LET event == co[t].args.event
               Start == event.o["Start"].n
               End == event.o["End"].n
               Opet == Entry0(event, "Opet").s
           IN  /\ co[t].result.exc = "none"
               /\ Len(co[t].result.lessons) = 1
               /\ LET lesson == co[t].result.lessons[1]
                  IN  /\ IsClockText(lesson.start_time, Start)
                      /\ IsClockText(lesson.end_time, End)
                      /\ StrLess(lesson.start_time, lesson.end_time) <=> Start < End
                      /\ lesson.subject = Entry0(event, "Text")
                      /\ lesson.notes = Entry0(event, "LongText")
                      /\ lesson.teacher.t = "str"
                      /\ \E k \in 0..Len(Opet) :
                           /\ Opet = SubSeq(Opet, 1, k) \o lesson.teacher.s
                           /\ SubSeq(Opet, 1, k) \in {<< >>, <<"O", ":">>, <<"O", ":", " ">>}
                           /\ ~StartsWith(lesson.teacher.s, <<"O", ":">>)
                           /\ ~StartsWith(lesson.teacher.s, <<" ">>)

\* Start 510, End 555 and Opet "O: J. Doe" gave 08:30, 09:15 and the teacher
\* J. Doe.
C23_Witness ==
    \E t \in Tasks :
        /\ Parsed(co[t], "Lesson")
        /\ co[t].args.event.o["Start"] = JInt(510)
        /\ co[t].args.event.o["End"] = JInt(555)
        /\ co[t].args.event.o["Opet"] = JObj("0" :> JStr(<<"O", ":", " ", "J", ".", " ", "D", "o", "e">>))
        /\ co[t].result.lessons[1].start_time = <<"0", "8", ":", "3", "0">>
        /\ co[t].result.lessons[1].end_time = <<"0", "9", ":", "1", "5">>
        /\ co[t].result.lessons[1].teacher = JStr(<<"J", ".", " ", "D", "o", "e">>)

\* The value the form of the page supplies for the field: that of its last
\* hidden input of that name; None without form or without such input.
Supplied(page, field) ==
    LET at == IF page.form.present
              THEN { i \in 1..Len(page.form.hidden) : page.form.hidden[i].name = field }
              ELSE {}
    IN  IF at = {} THEN None ELSE page.form.hidden[Highest(at)].value

\* The formkey of the page: the value of the first formkey input with name
\* before value, else of the first with value before name.
ExtractedFormkey(formkeys) ==
    LET At(order) ==
            { i \in 1..Len(formkeys) :
                /\ formkeys[i].order = order
                /\ \A j \in 1..(i - 1) : formkeys[j].order # order }
        at == IF At("name_value") # {} THEN At("name_value") ELSE At("value_name")
    IN  IF at = {} THEN None ELSE formkeys[CHOOSE i \in at : TRUE].value

\* The name of the body field: that of the form's textarea, "body" without.
TextareaName(page) ==
    IF page.form.present /\ page.form.textarea # None THEN page.form.textarea
    ELSE "body"

\* The data of the reply's POST hold the thread reference, the formkey and
\* the body as C24 says.
ReplyDataAsClaimed(c) ==
    LET data == c.result.post.data
    IN  /\ \A field \in {"answer", "replyto"} :
             Supplied(c.args.page, field) # None
             => field \in DOMAIN data /\ data[field] = Supplied(c.args.page, field)
        /\ (Supplied(c.args.page, "answer") = None
            /\ Supplied(c.args.page, "replyto") = None)
           => "answer" \in DOMAIN data /\ data["answer"] = c.args.message_id
        /\ "formkey" \in DOMAIN data
        /\ data["formkey"] = ExtractedFormkey(c.args.page.formkeys)
        /\ TextareaName(c.args.page) \in DOMAIN data
        /\ data[TextareaName(c.args.page)] = c.args.body

C28_ReplyNeedsFormkey ==
    \A t \in Tasks :
        LET formkey == ExtractedFormkey(co[t].args.page.formkeys)
        IN  /\ Parsed(co[t], "reply_to_message.compose")
               => IF formkey = None
                  THEN co[t].result = [exc |-> "WilmaAPIError"]
                  ELSE /\ co[t].result.exc = "none"
                       /\ co[t].result.post.method = "POST"
            /\ Parsed(co[t], "send_message.compose")
               => /\ co[t].result.exc = "none"
                  /\ co[t].result.post.method = "POST"
                  /\ co[t].result.post.data["formkey"]
                     = IF formkey = None THEN "" ELSE formkey

\* A reply met a page whose only formkey input has an attribute between name
\* and value, and ended with WilmaAPIError.
C28_Witness ==
    \E t \in Tasks :
        /\ Parsed(co[t], "reply_to_message.compose")
        /\ Len(co[t].args.page.formkeys) = 1
        /\ co[t].args.page.formkeys[1].order = "apart"
        /\ co[t].result.exc = "WilmaAPIError"

\* C25: _parse_finnish_timestamp returns a datetime for every text and never
\* raises: a text with digits of a day and a month that no listed format
\* parses, out-of-range ones included, gets its datetime from the
\* components, and a text without them the current time.
C25_TimestampNeverRaises ==
    \A t \in Tasks :
        Parsed(co[t], "_parse_finnish_timestamp") => co[t].result.exc = "none"

\* C26: when a call has ended with the WilmaAuthError of its login(), raised
\* at the bootstrap step, at the cookie check or at the prefix search, on a
\* first login or on one after an expiry, the client does not hold both a
\* session id and a prefix, so that the next _ensure_authenticated calls
\* login() again.
C26_FailedLoginLeavesLoggedOut ==
    \A t \in Tasks :
        (co[t].pc = "done" /\ co[t].result = "WilmaAuthError")
        => NeedsLogin(session_id, user_prefix)

\* C27: send_message and reply_to_message never return True when the last
\* response to their compose POST, the one _request hands back after its
\* single expiry retry included, has a final URL that holds the login
\* endpoint.
C27_LoginPageNeverSent ==
    \A t \in Tasks :
        ( /\ Parsed(co[t], "send_message") \/ Parsed(co[t], "reply_to_message")
          /\ IsExpired(co[t].args.response) )
        => co[t].result # [exc |-> "none", value |-> TRUE]

\* The days that the document and the start date of a week's call name:
\* start_date and the DayCount - 1 days behind it (five days without a
\* DayCount).
WeekDates(c) ==
    [i \in 1..DayCountOf(c.args.html) |-> AddDays(c.args.start_date, i - 1)]

\* C29: for every document and start date _parse_week_schedule_from_html
\* returns, without raising, exactly DayCount DaySchedules (5 when the
\* document has no DayCount), for the consecutive dates from start_date on
\* in ascending order, also when the marker is missing, the brackets do not
\* balance or the JSON or a type fails.
C29_WeekHasDayCountDays ==
    \A t \in Tasks :
        Parsed(co[t], "_parse_week_schedule_from_html") =>
            /\ co[t].result.exc = "none"
            /\ Len(co[t].result.schedules) = Len(WeekDates(co[t]))
            /\ \A i \in 1..Len(WeekDates(co[t])) :
                 co[t].result.schedules[i].date = WeekDates(co[t])[i]

\* C30: for every document and every date d of the week, the day parser
\* asked for d and the week parser end alike, and the lessons of the
\* DaySchedule of the first are those of the entry for d of the second, also
\* when an event of the payload is malformed.
C30_DayAndWeekAgree ==
    \A t \in Tasks :
        Parsed(co[t], "_parse_week_schedule_from_html") =>
            \A i \in 1..Len(WeekDates(co[t])) :
                LET day == ParseScheduleFromHtml(co[t].args.html, WeekDates(co[t])[i])
                IN  /\ day.exc = co[t].result.exc
                    /\ day.exc = "none" =>
                         /\ i <= Len(co[t].result.schedules)
                         /\ co[t].result.schedules[i].lessons = day.schedule.lessons

====
